---- MODULE Spec2Model ----
(***************************************************************************)
(* Model of the libev TCP relay of zxhio/mux (src/relay.cpp, lines 1-306): *)
(* the buffered relay callbacks read_cb / write_cb on one relay (two       *)
(* TCPBufConn objects, "client" and "server"), and the acceptor / worker    *)
(* hand-off over the per-worker eventfd (accept_cb / eventfd_read_cb).      *)
(*                                                                         *)
(* Field convention of the source: every TCPBufConn x owns                  *)
(*   buf[x]         bytes read from x, not yet written to its peer          *)
(*   read_count[x]  bytes read from x,  write_count[x] bytes written to x   *)
(*   read_done[x]   read(x) returned 0                                      *)
(*   write_done[x]  shutdown(x, SHUT_WR) was issued                         *)
(* so the direction A->B uses buf[A], read_count[A], read_done[A],          *)
(* write_count[B] and write_done[B].                                        *)
(***************************************************************************)
EXTENDS Integers, Sequences, FiniteSets, TLC

\* ------------------------------------------------------------------ bounds
\* The two buffer sizes of src/relay.cpp:20-21 are 64 KiB and 1 MiB; the
\* model keeps their roles (one read's worth, backpressure threshold) and
\* scales the byte counts so that every boundary (size = threshold,
\* threshold + 1, threshold + one full read) is reached.
kReusableBufferSize == 2
kMaxConnBufferSize == 2
\* Largest pool, number of listeners, and connections dispatched.
MaxWorkers == 3
NumListeners == 1
MaxAccepts == 3
\* The hand-off value packs two 32-bit halves into the 64-bit eventfd counter
\* (src/relay.cpp:262-264, 164-165); the model packs two halves of
\* kFdBits bits each, wide enough for every descriptor it opens.
kFdBits == 6
\* Bytes a peer sends on one direction before the model stops reading more.
MaxStream == kMaxConnBufferSize + kReusableBufferSize + 1
\* Bytes a peer sends when the relay runs next to the pool's callbacks.
MuxStream == 1
\* The bytes each peer sends, in order: every byte of a stream is distinct
\* and the two streams are disjoint, so that any insertion, deletion,
\* duplication, reordering or cross-over shows in the relayed sequence (the
\* relay never looks at byte values).
PeerStream(c) == [i \in 1..MaxStream |-> IF c = "client" THEN i ELSE 100 + i]

Conns == {"client", "server"}
Peer(c) == IF c = "client" THEN "server" ELSE "client"

\* errno values the kernel may report with a -1 return.
ReadErrnos == {"EAGAIN", "EINTR", "ECONNRESET"}
WriteErrnos == {"EAGAIN", "EINTR", "EPIPE"}

VARIABLES
  buf, read_count, write_count, read_done, write_done,  \* TCPBufConn fields
  read_io, write_io,     \* ev_io watcher of the conn is active
  context,               \* the conn's context_ holds the shared_ptr to its peer
  closes,                \* number of ::close() calls made on the conn's fd
  shut_rd, shut_wr,      \* number of ::shutdown(fd, SHUT_RD / SHUT_WR) calls
  rd, wr,                \* history: bytes read from / written to the conn
  last,                  \* history: the callback that ran last and its syscall result
  failed,                \* history: some read or write has returned -1
  proc,                  \* "running", or "aborted" by undefined behaviour
  retire_log             \* the log records of the callback that retired the relay

relayVars == <<buf, read_count, write_count, read_done, write_done, read_io,
               write_io, context, closes, shut_rd, shut_wr, rd, wr, last, failed,
               proc, retire_log>>

VARIABLES
  nloops,                \* p->loops.size()
  curr_loop_idx,         \* p->curr_loop_idx
  efd,                   \* counter of each loop's eventfd
  relay_addrs,           \* each loop's relay_addrs_ (its listen fds)
  fds,                   \* the process's descriptor table: fd -> kind
  relays,                \* relays set up so far: [loop, client_fd, server_fd]
  sent, received,        \* history per loop: pairs written to / decoded from its eventfd
  targets,               \* history: the loop index chosen by each dispatch
  watchers,              \* p.watchers: listen fd -> index of the loop its accept
                         \* watcher is started on
  efd_io,                \* each loop's efd_io_ watcher is started
  pool_last              \* history: the pool callback that ran last, the loop
                         \* it ran on, where it returned, and the client_fd it
                         \* handled

poolVars == <<nloops, curr_loop_idx, efd, relay_addrs, fds, relays, sent,
              received, targets, watchers, efd_io, pool_last>>

VARIABLES
  conn_fd,               \* read_io_.fd / write_io_.fd of each conn of the relay
  foreign,               \* history: descriptors the relay closed that were not its own
  peer_len               \* bytes each peer sends in all before it closes

fdVars == <<conn_fd, foreign, peer_len>>

VARIABLES
  main_pc,               \* the call main() is at, or "exited" / "terminated"
  addr_tuple_list,       \* args.addr_tuple_list as parsed from the command line
  exit_status,           \* the status the process ended with, -1 while it runs
  cpu_count,             \* what get_cpu_count() returns
  workers_started        \* run_event_loop_pool has started the loop threads

mainVars == <<main_pc, addr_tuple_list, exit_status, cpu_count, workers_started>>

VARIABLES
  ops,                   \* asio relay: the asynchronous operations outstanding
                         \* on each direction's streambuf, oldest first
  capacity               \* asio relay: buf->capacity() of each direction

asioVars == <<ops, capacity>>

vars == <<relayVars, poolVars, fdVars, mainVars, asioVars>>

\* No asio Relay exists.
NoAsio ==
  /\ ops = [c \in Conns |-> <<>>]
  /\ capacity = [c \in Conns |-> 0]

\* ------------------------------------------------------------ pure helpers
Min(a, b) == IF a < b THEN a ELSE b

\* Mutant: the bytes read are put in front of the pending ones.
AppendRead_front(b, data) == data \o b

\* std::copy_n(el->buf_.data(), nread, std::back_inserter(from->buf))
AppendRead(b, data) == b \o data

\* Mutant: the written bytes stay in the buffer.
EraseWritten_none(b, nwrite) == b

\* from->buf.erase(from->buf.begin(), from->buf.begin() + nwrite)
EraseWritten(b, nwrite) == SubSeq(b, nwrite + 1, Len(b))

\* Mutant: read is never stopped, whatever the buffer holds.
OverLimit_never(b) == FALSE
\* Mutant: the threshold test is off by one.
OverLimit_late(b) == Len(b) > kMaxConnBufferSize + 1

\* if (from->buf.size() > kMaxConnBufferSize) from->disable_read();
OverLimit(b) == Len(b) > kMaxConnBufferSize

\* Mutant: a stopped read watcher is never started again.
MayResumeRead_never(b, rdone) == FALSE
\* Mutant: read is resumed below the threshold even after EOF.
MayResumeRead_eof(b, rdone) == Len(b) < kMaxConnBufferSize

\* if (from->buf.size() < kMaxConnBufferSize && !from->read_done) enable_read
MayResumeRead(b, rdone) == Len(b) < kMaxConnBufferSize /\ ~rdone

\* Mutant: shut down for write at EOF without waiting for the drain.
ShouldShutdown_early(empty, rdone) == rdone
\* Mutant: shut down for write on any empty buffer, EOF or not.
ShouldShutdown_any(empty, rdone) == empty

\* if (from->buf.empty()) { to->disable_write(); if (from->read_done) {
\*   to->shutdown(SHUT_WR); to->write_done = true; } }
ShouldShutdown(empty, rdone) == empty /\ rdone

\* Mutant: retire as soon as the source socket is done.
RelayDone_one(frd, fwd, trd, twd) == frd /\ fwd

\* if (from->read_done && from->write_done && to->read_done && to->write_done)
RelayDone(frd, fwd, trd, twd) == frd /\ fwd /\ trd /\ twd

\* ------------------------------------------------------------------- Init
\* The relay as eventfd_read_cb leaves it (src/relay.cpp:226-239): two fresh
\* TCPBufConn objects pointing at each other, read watchers started.
RelayInit ==
  /\ buf = [c \in Conns |-> <<>>]
  /\ read_count = [c \in Conns |-> 0]
  /\ write_count = [c \in Conns |-> 0]
  /\ read_done = [c \in Conns |-> FALSE]
  /\ write_done = [c \in Conns |-> FALSE]
  /\ read_io = [c \in Conns |-> TRUE]
  /\ write_io = [c \in Conns |-> FALSE]
  /\ context = [c \in Conns |-> TRUE]
  /\ closes = [c \in Conns |-> 0]
  /\ shut_rd = [c \in Conns |-> 0]
  /\ shut_wr = [c \in Conns |-> 0]
  /\ rd = [c \in Conns |-> <<>>]
  /\ wr = [c \in Conns |-> <<>>]
  /\ last = [cb |-> "none", conn |-> "none", res |-> "none"]
  /\ failed = FALSE
  /\ proc = "running"
  /\ retire_log = <<>>

\* ---------------------------------------------------------------- read_cb
\* What ::read can hand back for a readable socket: up to one scratch
\* buffer of the bytes the peer sent (bounded by MaxStream per direction).
ReadData(from) ==
  {SubSeq(PeerStream(from), Len(rd[from]) + 1, Len(rd[from]) + n) :
     n \in 1..Min(kReusableBufferSize, peer_len[from] - Len(rd[from]))}

\* A log record: level, message and the keys of its KV fields.
Record(level, msg, keys) == [level |-> level, msg |-> msg, keys |-> keys]

\* ~TCPBufConn, run for each conn when the contexts are cleared.
DtorRecord ==
  Record("TRACE", "TCPBufConn::~TCPBufConn", {"laddr", "raddr", "read", "write"})

\* Mutant: the teardown stops only the failing conn's watchers.
ReadFail_own(from, e) ==
  /\ closes' = [c \in Conns |-> closes[c] + 1]
  /\ read_io' = [read_io EXCEPT ![from] = FALSE]
  /\ write_io' = [write_io EXCEPT ![from] = FALSE]
  /\ context' = [c \in Conns |-> FALSE]
  /\ last' = [cb |-> "read_cb", conn |-> from, res |-> e]
  /\ failed' = TRUE
  /\ retire_log' = <<Record("ERROR", "Fail to read",
                            {"laddr", "raddr", "fd", "error"}),
                     DtorRecord, DtorRecord>>
  /\ UNCHANGED <<buf, read_count, write_count, read_done, write_done,
                 shut_rd, shut_wr, rd, wr, proc>>

\* case -1: both conns are closed, all four watchers stopped, both
\* contexts cleared (which destroys both objects).  errno is not looked at.
ReadFail(from, e) ==
  /\ closes' = [c \in Conns |-> closes[c] + 1]
  /\ read_io' = [c \in Conns |-> FALSE]
  /\ write_io' = [c \in Conns |-> FALSE]
  /\ context' = [c \in Conns |-> FALSE]
  /\ last' = [cb |-> "read_cb", conn |-> from, res |-> e]
  /\ failed' = TRUE
  /\ retire_log' = <<Record("ERROR", "Fail to read",
                            {"laddr", "raddr", "fd", "error"}),
                     DtorRecord, DtorRecord>>
  /\ UNCHANGED <<buf, read_count, write_count, read_done, write_done,
                 shut_rd, shut_wr, rd, wr, proc>>

\* Mutant: EOF does not start the peer's write watcher.
ReadEof_nowake(from) ==
  /\ shut_rd' = [shut_rd EXCEPT ![from] = @ + 1]
  /\ read_io' = [read_io EXCEPT ![from] = FALSE]
  /\ read_done' = [read_done EXCEPT ![from] = TRUE]
  /\ last' = [cb |-> "read_cb", conn |-> from, res |-> "eof"]
  /\ UNCHANGED <<buf, read_count, write_count, write_done, write_io, context,
                 closes, shut_wr, rd, wr, failed, proc, retire_log>>

\* case 0
ReadEof(from) ==
  /\ shut_rd' = [shut_rd EXCEPT ![from] = @ + 1]
  /\ read_io' = [read_io EXCEPT ![from] = FALSE]
  /\ read_done' = [read_done EXCEPT ![from] = TRUE]
  /\ write_io' = [write_io EXCEPT ![Peer(from)] = TRUE]
  /\ last' = [cb |-> "read_cb", conn |-> from, res |-> "eof"]
  /\ UNCHANGED <<buf, read_count, write_count, write_done, context, closes,
                 shut_wr, rd, wr, failed, proc, retire_log>>

\* default: nread > 0
ReadSome(from, data) ==
  /\ buf' = [buf EXCEPT ![from] = AppendRead(@, data)]
  /\ read_io' = [read_io EXCEPT ![from] =
                   IF OverLimit(buf'[from]) THEN FALSE ELSE @]
  /\ read_count' = [read_count EXCEPT ![from] = @ + Len(data)]
  /\ write_io' = [write_io EXCEPT ![Peer(from)] = TRUE]
  /\ rd' = [rd EXCEPT ![from] = @ \o data]
  /\ last' = [cb |-> "read_cb", conn |-> from, res |-> "data"]
  /\ UNCHANGED <<write_count, read_done, write_done, context, closes,
                 shut_rd, shut_wr, wr, failed, proc, retire_log>>

read_cb(from) ==
  /\ proc = "running"
  /\ read_io[from]
  /\ \/ \E e \in ReadErrnos : ReadFail(from, e)
     \/ closes[from] = 0 /\ ReadEof(from)
     \/ closes[from] = 0 /\ \E data \in ReadData(from) : ReadSome(from, data)

\* --------------------------------------------------------------- write_cb
\* Mutant: a failed write stops the write watcher.
WriteFail_stop(to, e) ==
  /\ last' = [cb |-> "write_cb", conn |-> to, res |-> e]
  /\ failed' = TRUE
  /\ write_io' = [write_io EXCEPT ![to] = FALSE]
  /\ UNCHANGED <<buf, read_count, write_count, read_done, write_done, read_io,
                 context, closes, shut_rd, shut_wr, rd, wr, proc, retire_log>>

\* nwrite < 0: log unless EAGAIN, return.
WriteFail(to, e) ==
  /\ last' = [cb |-> "write_cb", conn |-> to, res |-> e]
  /\ failed' = TRUE
  /\ UNCHANGED <<buf, read_count, write_count, read_done, write_done, read_io,
                 write_io, context, closes, shut_rd, shut_wr, rd, wr, proc,
                 retire_log>>

\* nwrite >= 0: lines 122-154, in program order.
WriteSome(to, nwrite) ==
  LET from == Peer(to)
      b == EraseWritten(buf[from], nwrite)
      empty == b = <<>>
      shut == ShouldShutdown(empty, read_done[from])
      wdone == [write_done EXCEPT ![to] = @ \/ shut]
      closeFrom == read_done[from] /\ wdone[from]
      closeTo == read_done[to] /\ wdone[to]
      retire == RelayDone(read_done[from], wdone[from], read_done[to], wdone[to])
  IN
  /\ write_count' = [write_count EXCEPT ![to] = @ + nwrite]
  /\ wr' = [wr EXCEPT ![to] = @ \o SubSeq(buf[from], 1, nwrite)]
  /\ buf' = [buf EXCEPT ![from] = b]
  /\ read_io' = [read_io EXCEPT ![from] =
                   IF MayResumeRead(b, read_done[from]) THEN TRUE ELSE @]
  /\ write_io' = [write_io EXCEPT ![to] = IF empty THEN FALSE ELSE @]
  /\ shut_wr' = [shut_wr EXCEPT ![to] = IF shut THEN @ + 1 ELSE @]
  /\ write_done' = wdone
  /\ closes' = [c \in Conns |->
                  IF (c = from /\ closeFrom) \/ (c = to /\ closeTo)
                  THEN closes[c] + 1 ELSE closes[c]]
  /\ context' = IF retire THEN [c \in Conns |-> FALSE] ELSE context
  \* from->set_context(std::any()) drops the last reference to *to; the
  \* following to->set_context(std::any()) writes into the freed object.
  /\ IF retire THEN proc' \in {"running", "aborted"} ELSE proc' = proc
  /\ retire_log' =
       IF retire
       THEN <<Record("DEBUG", "Close from", {"laddr", "raddr"}),
              Record("DEBUG", "Close to", {"laddr", "raddr"}),
              Record("DEBUG", "Close relay", {"from", "to"}),
              DtorRecord, DtorRecord>>
       ELSE retire_log
  /\ last' = [cb |-> "write_cb", conn |-> to, res |-> "ok"]
  /\ UNCHANGED <<read_count, read_done, shut_rd, rd, failed>>

\* Byte counts ::write can accept for a writable socket.
WriteSizes(to) ==
  IF buf[Peer(to)] = <<>> THEN {0} ELSE 1..Len(buf[Peer(to)])

write_cb(to) ==
  /\ proc = "running"
  /\ write_io[to]
  /\ \/ \E e \in WriteErrnos : WriteFail(to, e)
     \/ /\ closes[to] = 0
        /\ shut_wr[to] = 0
        /\ \E nwrite \in WriteSizes(to) : WriteSome(to, nwrite)

\* ------------------------------------------------------------- the pool
Max(a, b) == IF a > b THEN a ELSE b

Loops == 0..(nloops - 1)

\* Descriptor numbers: 0-2 stdio, then one eventfd per loop
\* (create_event_loop_pool), then the listeners (main), then connections.
MaxFd == 2 + MaxWorkers + NumListeners + 2 * MaxAccepts
FdRange == 0..MaxFd
EventFd(i) == 3 + i
ListenFds(n) == (3 + n)..(3 + n + NumListeners - 1)

\* POSIX: a new descriptor is the lowest-numbered one not open.
HasFree(t) == \E f \in FdRange : t[f] = "free"
LowestFree(t) ==
  CHOOSE f \in FdRange : t[f] = "free" /\ \A g \in 0..(f - 1) : t[g] # "free"

\* ::close(fd): frees the slot whatever it holds; EBADF if nothing is open.
Close(t, f) == IF f \in FdRange THEN [t EXCEPT ![f] = "free"] ELSE t

Half == 2 ^ kFdBits

\* value |= static_cast<eventfd_t>(w->fd) << 32 & 0xffffffff00000000;
\* value |= static_cast<eventfd_t>(client_fd & 0x00000000ffffffff);
Encode(listen_fd, client_fd) ==
  ((listen_fd * Half) % (Half * Half)) + (client_fd % Half)

\* The largest int, half the width of the value less the sign bit.
IntMax == (Half \div 2) - 1

\* static_cast<int> of an unsigned value of half the width.
ToInt(u) == IF u > IntMax THEN u - Half ELSE u

\* Mutant: the worker forgets the shift.
DecodeListen_low(value) == ToInt(value % Half)

\* listen_fd = static_cast<int>((value & 0xffffffff00000000) >> 32)
DecodeListen(value) == ToInt((value % (Half * Half)) \div Half)
\* client_fd = static_cast<int>(value & 0x00000000ffffffff)
DecodeClient(value) == ToInt(value % Half)

\* eventfd(0, 0): a write adds the value to the counter, a read returns the
\* counter and resets it to zero.
EventfdWrite(counter, value) == counter + value

\* Mutant: the cursor stops at the first loop after loop 0.
NextLoopIdx_stay(idx, n) ==
  IF idx % n = 0 THEN idx + 1 ELSE idx

\* Mutant: no skip of loop 0.
NextLoopIdx_noskip(idx, n) == idx + 1

\* Mutant: the skip test looks at the cursor before the increment.
NextLoopIdx_before(idx, n) ==
  IF idx % n = 0 THEN idx + 2 ELSE idx + 1

\* p->curr_loop_idx++; if (p->curr_loop_idx % p->loops.size() == 0)
\*   p->curr_loop_idx++;
NextLoopIdx(idx, n) ==
  IF (idx + 1) % n = 0 THEN idx + 2 ELSE idx + 1

\* Mutant: the accept watcher is started on the last loop.
AcceptLoop_last(listenfd) == MaxWorkers - 1

\* ev_io_start(p.loops[0]->loop_, &p.watchers[listenfd])
AcceptLoop(listenfd) == 0

\* create_event_loop_pool(n) followed by attach_listener for every tuple.
\* (Every EventLoop keeps pool_ = &p of the pool returned by value; the
\* model takes the returned pool to be that object, as it is when the
\* compiler elides the copy of the named return value.)
PoolInit(n) ==
  /\ cpu_count = n
  /\ nloops = Max(n, 1)
  /\ curr_loop_idx = 0
  /\ efd = [i \in 0..(Max(n, 1) - 1) |-> 0]
  /\ relay_addrs = [i \in 0..(Max(n, 1) - 1) |-> ListenFds(Max(n, 1))]
  /\ fds = [f \in FdRange |->
              IF f <= 2 THEN "std"
              ELSE IF f < 3 + Max(n, 1) THEN "eventfd"
              ELSE IF f \in ListenFds(Max(n, 1)) THEN "listen"
              ELSE "free"]
  /\ relays = {}
  /\ sent = [i \in 0..(Max(n, 1) - 1) |-> <<>>]
  /\ received = [i \in 0..(Max(n, 1) - 1) |-> <<>>]
  /\ targets = <<>>
  /\ watchers = [l \in ListenFds(Max(n, 1)) |-> AcceptLoop(l)]
  /\ efd_io = [i \in 0..(Max(n, 1) - 1) |-> TRUE]
  /\ pool_last = [cb |-> "none", loop |-> -1, res |-> "none",
                  client_fd |-> -1, missed |-> FALSE]

\* -------------------------------------------------------------- accept_cb
\* Mutant: a failed accept still moves the round-robin cursor.
AcceptFail_skip(listen_fd) ==
  /\ pool_last' = [cb |-> "accept_cb", loop |-> watchers[listen_fd],
                   res |-> "accept", client_fd |-> -1, missed |-> FALSE]
  /\ curr_loop_idx' = NextLoopIdx(curr_loop_idx, nloops)
  /\ UNCHANGED <<nloops, efd, relay_addrs, fds, relays, sent, received,
                 targets, watchers, efd_io>>

\* ::accept failed: log and return.
AcceptFail(listen_fd) ==
  /\ pool_last' = [cb |-> "accept_cb", loop |-> watchers[listen_fd],
                   res |-> "accept", client_fd |-> -1, missed |-> FALSE]
  /\ UNCHANGED <<nloops, curr_loop_idx, efd, relay_addrs, fds, relays, sent,
                 received, targets, watchers, efd_io>>

\* set_nonblocking(client_fd) failed: the descriptor is opened and closed.
AcceptNonblockFail(listen_fd) ==
  /\ fds' = Close([fds EXCEPT ![LowestFree(fds)] = "conn"], LowestFree(fds))
  /\ pool_last' = [cb |-> "accept_cb", loop |-> watchers[listen_fd],
                   res |-> "set_nonblocking",
                   client_fd |-> LowestFree(fds), missed |-> FALSE]
  /\ UNCHANGED <<nloops, curr_loop_idx, efd, relay_addrs, relays, sent,
                 received, targets, watchers, efd_io>>

\* Lines 255-265: advance the cursor, pick the loop, write the pair.  The
\* return value of ::eventfd_write is dropped: when the write fails
\* (wrote = FALSE) the counter is as before and nothing else differs.
Dispatch(listen_fd, wrote) ==
  LET client_fd == LowestFree(fds)
      idx == NextLoopIdx(curr_loop_idx, nloops)
      t == idx % nloops
  IN
  /\ fds' = [fds EXCEPT ![client_fd] = "conn"]
  /\ curr_loop_idx' = idx
  /\ efd' = IF wrote
            THEN [efd EXCEPT ![t] = EventfdWrite(@, Encode(listen_fd, client_fd))]
            ELSE efd
  /\ sent' = IF wrote
             THEN [sent EXCEPT ![t] = Append(@, <<listen_fd, client_fd>>)]
             ELSE sent
  /\ targets' = Append(targets, t)
  /\ pool_last' = [cb |-> "accept_cb", loop |-> watchers[listen_fd],
                   res |-> IF wrote THEN "ok" ELSE "eventfd_write",
                   client_fd |-> client_fd, missed |-> FALSE]
  /\ UNCHANGED <<nloops, relay_addrs, relays, received, watchers, efd_io>>

\* writes: the outcomes ::eventfd_write can have (TRUE: the value was added).
accept_cb(listen_fd, writes) ==
  /\ Len(targets) < MaxAccepts
  /\ listen_fd \in DOMAIN watchers
  /\ fds[listen_fd] = "listen"
  /\ \/ AcceptFail(listen_fd)
     \/ HasFree(fds) /\ AcceptNonblockFail(listen_fd)
     \/ HasFree(fds) /\ \E wrote \in writes : Dispatch(listen_fd, wrote)

\* -------------------------------------------------------- eventfd_read_cb
\* Where the set-up of a relay can stop (lines 168-224), or "ok".
SetupSteps == {"get_remote_addr", "get_local_addr", "create_connection",
               "get_local_addr_server", "set_nonblocking", "ok"}
\* The steps that fail before a server socket is held.
EarlySteps == {"get_remote_addr", "get_local_addr", "create_connection"}

\* The ::close calls of the failing step: client_fd, and server_fd once
\* create_connection has returned it (a socket that create_connection
\* opened and could not connect was closed inside it).
SetupClosed(t, step, client_fd, server_fd) ==
  IF step \in EarlySteps
  THEN Close(t, client_fd)
  ELSE Close(Close(t, client_fd), server_fd)

\* Mutant: the relay's watchers go to the acceptor's loop.
WatcherLoop_first(i) == 0

\* set_read_event(loop, ...) / set_write_event(loop, ...): the watchers of
\* both conns are initialised for the loop whose eventfd callback this is.
WatcherLoop(i) == i

\* get_remote_addr / get_local_addr test "getpeername(...) < -1", which is
\* never true, and then switch on ss.ss_family: after a failed call that
\* field was never written.  Either the stale value is no IP family (ec is
\* set: the step fails as coded), or it is AF_INET / AF_INET6 and the
\* failure is missed: the set-up goes on with the address found on the stack.
AddrOutcomes == BOOLEAN

\* getpeername / getsockname succeed only on an open connected socket.
IsConn(t, f) == f \in FdRange /\ t[f] = "conn"

eventfd_read_cb(i) ==
  /\ efd_io[i]
  /\ efd[i] > 0
  /\ LET value == efd[i]
         listen_fd == DecodeListen(value)
         client_fd == DecodeClient(value)
     IN
     /\ efd' = [efd EXCEPT ![i] = 0]
     /\ received' = [received EXCEPT ![i] = Append(@, <<listen_fd, client_fd>>)]
     /\ IF listen_fd \notin relay_addrs[i]
        THEN /\ fds' = Close(fds, client_fd)
             /\ pool_last' = [cb |-> "eventfd_read_cb", loop |-> i, res |-> "relay_addrs_",
                              client_fd |-> client_fd, missed |-> FALSE]
             /\ UNCHANGED relays
        ELSE \E step \in SetupSteps, missed \in AddrOutcomes :
          /\ pool_last' = [cb |-> "eventfd_read_cb", loop |-> i, res |-> step,
                           client_fd |-> client_fd, missed |-> missed]
          /\ missed => step # "get_remote_addr"
          \* the address syscalls cannot succeed on a descriptor that is
          \* not a connected socket
          /\ IsConn(fds, client_fd) \/ step = "get_remote_addr" \/ missed
          /\ step \in {"get_local_addr_server", "set_nonblocking", "ok"}
               => HasFree(fds)
          /\ IF step \in EarlySteps
             THEN /\ fds' = SetupClosed(fds, step, client_fd, -1)
                  /\ UNCHANGED relays
             ELSE LET server_fd == LowestFree(fds)
                      opened == [fds EXCEPT ![server_fd] = "conn"]
                  IN IF step = "ok"
                     THEN /\ fds' = opened
                          /\ relays' = relays \cup
                               {[loop |-> WatcherLoop(i), client_fd |-> client_fd,
                                 server_fd |-> server_fd]}
                     ELSE /\ fds' = SetupClosed(opened, step, client_fd, server_fd)
                          /\ UNCHANGED relays
  /\ UNCHANGED <<nloops, curr_loop_idx, relay_addrs, sent, targets, watchers,
                 efd_io>>

\* ------------------------------------------------------------------- main
\* Most tuples on one command line.
MaxTuples == 2

V4(a, b, c, d, port) ==
  [family |-> "AF_INET", ip |-> <<a, b, c, d>>, port |-> port]
V6(groups, port) == [family |-> "AF_INET6", ip |-> groups, port |-> port]
AnyV6 == <<0, 0, 0, 0, 0, 0, 0, 0>>
LoopbackV6 == <<0, 0, 0, 0, 0, 0, 0, 1>>

\* The dst endpoints a command line is drawn from.
Dsts == {V4(0, 0, 0, 0, 80), V4(0, 0, 0, 0, 0), V4(10, 0, 0, 1, 0),
         V4(10, 0, 0, 1, 80), V4(10, 0, 0, 0, 80),
         V6(AnyV6, 80), V6(AnyV6, 0), V6(LoopbackV6, 80)}

\* A dst that passes every check, for the runs that start after main's set-up.
ServedDst == V4(10, 0, 0, 1, 80)

\* IPAddr::port()
Port(a) == IF a.family \in {"AF_INET", "AF_INET6"} THEN a.port ELSE 0

DigitChar(d) == <<"0", "1", "2", "3", "4", "5", "6", "7", "8", "9">>[d + 1]

\* "%d"
RECURSIVE Decimal(_)
Decimal(n) ==
  IF n < 10 THEN <<DigitChar(n)>>
  ELSE Decimal(n \div 10) \o <<DigitChar(n % 10)>>

\* format_ip_v4: inet_ntop(AF_INET, ...)
format_ip_v4(ip) ==
  Decimal(ip[1]) \o <<".">> \o Decimal(ip[2]) \o <<".">> \o
  Decimal(ip[3]) \o <<".">> \o Decimal(ip[4])

\* format_addr_v4: "%s:%d"
format_addr_v4(a) == format_ip_v4(a.ip) \o <<":">> \o Decimal(a.port)

\* format_ip_v6 calls inet_ntop(AF_INET6, &addr, ...) with the address of
\* its pointer parameter: the sixteen bytes converted are the pointer's own
\* eight bytes, which are not null, followed by eight bytes of the stack.
\* The text is that of some address whose first half is not zero, whatever
\* the address passed in: these are the shapes it takes.
format_ip_v6(ip) ==
  {g \o t : g \in {<<"7", "f", "f", "c">>, <<"5", "5", "d", "4">>},
            t \in {<<":", ":">>, <<":", ":", "1">>, <<":", "1", ":", ":">>,
                   <<":", "0", ":", "1", ":", ":", "2">>}}

\* format_addr_v6: "[%s]:%d"
format_addr_v6(a) ==
  {<<"[">> \o text \o <<"]", ":">> \o Decimal(a.port) :
     text \in format_ip_v6(a.ip)}

\* IPAddr::format_impl: the texts the call can return.
format(a) ==
  IF a.family = "AF_INET" THEN {format_addr_v4(a)}
  ELSE IF a.family = "AF_INET6" THEN format_addr_v6(a)
  ELSE {<<>>}

\* std::string::find(pat) != npos
Find(text, pat) ==
  \E i \in 1..(Len(text) - Len(pat) + 1) :
    SubSeq(text, i, i + Len(pat) - 1) = pat

\* One iteration of check_addr_tuple_valid: what it throws, if anything.
CheckTuple(t, addr_text) ==
  IF Port(t.dst) = 0 THEN "std::string"
  ELSE IF Find(addr_text, <<"0", ".", "0", ".", "0", ".", "0">>)
    THEN "std::logic_error"
  ELSE IF Find(addr_text, <<"[", ":", ":", "]">>) THEN "std::logic_error"
  ELSE "none"

\* check_addr_tuple_valid: the first tuple that throws decides.
check_addr_tuple_valid(list, texts) ==
  LET bad == {k \in 1..Len(list) : CheckTuple(list[k], texts[k]) # "none"}
  IN IF bad = {} THEN "none"
     ELSE CheckTuple(list[CHOOSE k \in bad : \A j \in bad : k <= j],
                     texts[CHOOSE k \in bad : \A j \in bad : k <= j])

\* IPAddr(): no family, port() is 0.
Unspec == [family |-> "AF_UNSPEC", ip |-> <<>>, port |-> 0]

\* std::isdigit
IsDigit(ch) == \E d \in 0..9 : DigitChar(d) = ch

DigitVal(ch) == CHOOSE d \in 0..9 : DigitChar(d) = ch

\* std::string::find_last_of(ch): the last position of ch, 0 for npos.
find_last_of(text, ch) ==
  LET at == {i \in 1..Len(text) : text[i] = ch}
  IN IF at = {} THEN 0 ELSE CHOOSE i \in at : \A j \in at : j <= i

\* The digits std::stoi converts: the longest run of them from position i.
RECURSIVE DigitRun(_, _)
DigitRun(text, i) ==
  IF i <= Len(text) /\ IsDigit(text[i])
  THEN <<DigitVal(text[i])>> \o DigitRun(text, i + 1)
  ELSE <<>>

\* strtol's accumulation in an int: -1 once the value passes INT_MAX.
RECURSIVE Accumulate(_, _)
Accumulate(digits, acc) ==
  IF digits = <<>> THEN acc
  ELSE IF acc > (2147483647 - Head(digits)) \div 10 THEN -1
  ELSE Accumulate(Tail(digits), acc * 10 + Head(digits))

\* std::stoi: an optional sign, then digits; what follows them is ignored.
\* No digit throws std::invalid_argument, a value no int holds throws
\* std::out_of_range.
stoi(text) ==
  LET neg == text # <<>> /\ text[1] = "-"
      digits == DigitRun(text, IF neg THEN 2 ELSE 1)
      value == Accumulate(digits, 0)
  IN IF digits = <<>> THEN [thrown |-> "std::invalid_argument", value |-> 0]
     ELSE IF value < 0 THEN [thrown |-> "std::out_of_range", value |-> 0]
     ELSE [thrown |-> "none", value |-> IF neg THEN 0 - value ELSE value]

\* uint16_t(port)
UInt16(port) == port % 65536

\* The fields of a dotted text, split at its dots.
RECURSIVE Fields(_)
Fields(text) ==
  LET dots == {i \in 1..Len(text) : text[i] = "."}
  IN IF dots = {} THEN <<text>>
     ELSE LET d == CHOOSE i \in dots : \A j \in dots : i <= j
          IN <<SubSeq(text, 1, d - 1)>> \o
             Fields(SubSeq(text, d + 1, Len(text)))

\* inet_pton(AF_INET, ...): four decimal fields of one to three digits, none
\* above 255, give the address and 1; any other text gives 0.
inet_pton(text) ==
  LET fs == Fields(text)
      good(f) == /\ Len(f) \in 1..3
                 /\ \A i \in 1..Len(f) : IsDigit(f[i])
                 /\ Accumulate(DigitRun(f, 1), 0) <= 255
  IN IF Len(fs) = 4 /\ \A k \in 1..4 : good(fs[k])
     THEN [k \in 1..4 |-> Accumulate(DigitRun(fs[k], 1), 0)]
     ELSE <<>>

\* What a parse gives: the endpoint returned, or the exception thrown.
Returns(addr) == [thrown |-> "none", addr |-> addr]
Throws(what) == [thrown |-> what, addr |-> Unspec]

\* What sin_addr may hold when inet_pton returned 0 and wrote nothing.
StackAddrs == {<<0, 0, 0, 0>>, <<127, 0, 0, 1>>}

\* parse_iptext_port, both overloads: the endpoints it can return, or what
\* it throws.  Only inet_pton(...) < 0 is taken for a failure, so a text
\* with a dot that is no address leaves sin_addr as it was on the stack.
\* The texts parsed here hold no colon once the port is cut off, so the
\* AF_INET6 branch of the loop is not entered.
parse_iptext_port(iptext, port) ==
  IF \E i \in 1..Len(iptext) : iptext[i] = "."
  THEN IF inet_pton(iptext) # <<>>
       THEN {Returns([family |-> "AF_INET", ip |-> inet_pton(iptext),
                      port |-> port])}
       ELSE {Returns([family |-> "AF_INET", ip |-> ip, port |-> port]) :
               ip \in StackAddrs}
  ELSE {Throws("std::system_error")}

\* must_parse_addr (main.cpp lines 50-74): the endpoints it can return, or
\* the exception it throws.
must_parse_addr(addr_text) ==
  LET n == find_last_of(addr_text, ":")
  IN IF n = 0
     THEN IF ~ \A i \in 1..Len(addr_text) : IsDigit(addr_text[i])
          THEN parse_iptext_port(addr_text, 0)
          ELSE LET port == stoi(addr_text)
               IN IF port.thrown # "none" THEN {Throws(port.thrown)}
                  ELSE IF port.value >= 0 /\ port.value <= 65536
                  THEN parse_iptext_port(<<"0", ".", "0", ".", "0", ".", "0">>,
                                         UInt16(port.value))
                  ELSE {Returns(Unspec)}
     ELSE LET ip_part == SubSeq(addr_text, 1, n - 1)
              port_part == SubSeq(addr_text, n + 1, Len(addr_text))
              port == stoi(port_part)
          IN IF port.thrown # "none" THEN {Throws(port.thrown)}
             ELSE IF port.value < 0 THEN {Returns(Unspec)}
             ELSE parse_iptext_port(ip_part, UInt16(port.value))

\* main before anything was created: only stdio is open.
NothingCreated ==
  /\ exit_status = -1
  /\ cpu_count \in 0..MaxWorkers
  /\ workers_started = FALSE
  /\ nloops = 0
  /\ curr_loop_idx = 0
  /\ efd = <<>>
  /\ relay_addrs = <<>>
  /\ fds = [f \in FdRange |-> IF f <= 2 THEN "std" ELSE "free"]
  /\ relays = {}
  /\ sent = <<>>
  /\ received = <<>>
  /\ targets = <<>>
  /\ watchers = [l \in {} |-> AcceptLoop(l)]
  /\ efd_io = <<>>
  /\ pool_last = [cb |-> "none", loop |-> -1, res |-> "none",
                  client_fd |-> -1, missed |-> FALSE]

\* main with the tuples parsed, at the validation that ends
\* must_parse_command_line.
MainInit ==
  /\ main_pc = "must_parse_command_line"
  /\ \E n \in 1..MaxTuples :
       addr_tuple_list \in [1..n -> [dst : Dsts]]
  /\ NothingCreated

\* LOG_FATAL: Logger::log ends in std::exit(1).
Fatal ==
  /\ main_pc' = "exited"
  /\ exit_status' = 1

\* The address texts a -r argument is drawn from: bare ports, a bare
\* address, HOST:PORT, and texts that are neither.
AddrTexts ==
  {Decimal(p) : p \in {0, 80, 65535, 65536, 65537}} \cup
  {format_ip_v4(<<10, 0, 0, 1>>) \o <<":">> \o Decimal(p) :
     p \in {80, 65535, 65536, 65616}} \cup
  {format_ip_v4(<<10, 0, 0, 1>>),
   format_ip_v4(<<10, 0, 0, 1>>) \o <<":", "-", "1">>,
   format_ip_v4(<<10, 0, 0, 1>>) \o <<":">>,
   <<"1", ".", "2", ":", "8", "0">>,
   <<"-", "1">>,
   <<"1", "0", ".", "0", ".", "0", ".", "1", ":">> \o Decimal(2147483647)
     \o <<"0">>}

\* main at the start of must_parse_addr_tuple, no tuple parsed yet.
ParseInit ==
  /\ main_pc = "must_parse_addr_tuple"
  /\ addr_tuple_list = <<>>
  /\ NothingCreated

\* One iteration of must_parse_addr_tuple's loop (lines 92-104), for a
\* tuple of a listen text and the dst text arg: the tuple is pushed with
\* the dst parsed from arg, kept beside it.  What must_parse_addr throws
\* is a std::exception, which main catches at line 182 and logs at FATAL.
must_parse_addr_tuple ==
  /\ main_pc = "must_parse_addr_tuple"
  /\ Len(addr_tuple_list) < MaxTuples
  /\ \E arg \in AddrTexts : \E dst \in must_parse_addr(arg) :
       IF dst.thrown # "none"
       THEN Fatal /\ UNCHANGED addr_tuple_list
       ELSE /\ addr_tuple_list' =
                 Append(addr_tuple_list, [dst |-> dst.addr, arg |-> arg])
            /\ UNCHANGED <<main_pc, exit_status>>
  /\ UNCHANGED <<cpu_count, workers_started, poolVars>>

\* main once run_event_loop_pool has started the threads.
MainRunning ==
  /\ main_pc = "run_event_loop_pool"
  /\ addr_tuple_list = [k \in 1..NumListeners |-> [dst |-> ServedDst]]
  /\ exit_status = -1
  /\ workers_started = TRUE

\* The texts t.dst.format() can return for the tuples of a list, in order.
RECURSIVE FormatChoices(_)
FormatChoices(list) ==
  IF list = <<>> THEN {<<>>}
  ELSE {<<text>> \o rest : text \in format(Head(list).dst),
                           rest \in FormatChoices(Tail(list))}

\* Lines 180-184.  A std::logic_error is caught and logged at FATAL; the
\* std::string thrown for port 0 is no std::exception, nothing catches it,
\* and std::terminate aborts the process (SIGABRT, status 128 + 6).
must_parse_command_line ==
  /\ main_pc = "must_parse_command_line"
  /\ \E texts \in FormatChoices(addr_tuple_list) :
       LET thrown == check_addr_tuple_valid(addr_tuple_list, texts)
       IN IF thrown = "none"
          THEN main_pc' = "create_event_loop_pool" /\ UNCHANGED exit_status
          ELSE IF thrown = "std::logic_error"
          THEN Fatal
          ELSE main_pc' = "terminated" /\ exit_status' = 134
  /\ UNCHANGED <<addr_tuple_list, cpu_count, workers_started, poolVars>>

\* Mutant: the pool has as many loops as asked for, none for zero.
PoolSize_asked(n) == n

\* size_t nloop = std::max(n, size_t(1));
PoolSize(n) == Max(n, 1)

\* Line 190: one eventfd and one started efd_io_ watcher per loop; the
\* std::system_error of a failed ::eventfd is caught at line 198.
main_create_event_loop_pool ==
  /\ main_pc = "create_event_loop_pool"
  /\ \/ /\ Fatal
        /\ UNCHANGED poolVars
     \/ LET size == PoolSize(cpu_count) IN
          /\ main_pc' = "attach_listener"
          /\ nloops' = size
          /\ efd' = [i \in 0..(size - 1) |-> 0]
          /\ efd_io' = [i \in 0..(size - 1) |-> TRUE]
          /\ relay_addrs' = [i \in 0..(size - 1) |-> {}]
          /\ sent' = [i \in 0..(size - 1) |-> <<>>]
          /\ received' = [i \in 0..(size - 1) |-> <<>>]
          /\ fds' = [f \in FdRange |->
                       IF f \in 3..(2 + size) THEN "eventfd" ELSE fds[f]]
          /\ UNCHANGED <<exit_status, curr_loop_idx, relays, targets,
                         watchers, pool_last>>
  /\ UNCHANGED <<addr_tuple_list, cpu_count, workers_started>>

\* Mutant: only the first loop's table gets the listener's entry.
main_attach_listener_first ==
  /\ main_pc = "attach_listener"
  /\ Cardinality(DOMAIN watchers) < Len(addr_tuple_list)
  /\ LET sockfd == LowestFree(fds) IN
     /\ fds' = [fds EXCEPT ![sockfd] = "listen"]
     /\ relay_addrs' = [relay_addrs EXCEPT ![0] = @ \cup {sockfd}]
     /\ watchers' = [l \in DOMAIN watchers \cup {sockfd} |->
                       IF l = sockfd THEN AcceptLoop(l) ELSE watchers[l]]
     /\ UNCHANGED <<main_pc, exit_status, nloops, curr_loop_idx, efd,
                    relays, sent, received, targets, efd_io, pool_last>>
  /\ UNCHANGED <<addr_tuple_list, cpu_count, workers_started>>

\* Lines 191-196, one iteration: create_and_bind_listener, attach_listener.
main_attach_listener ==
  /\ main_pc = "attach_listener"
  /\ Cardinality(DOMAIN watchers) < Len(addr_tuple_list)
  /\ \/ /\ Fatal
        /\ UNCHANGED poolVars
     \/ LET sockfd == LowestFree(fds) IN
        /\ fds' = [fds EXCEPT ![sockfd] = "listen"]
        /\ relay_addrs' = [i \in Loops |-> relay_addrs[i] \cup {sockfd}]
        /\ watchers' = [l \in DOMAIN watchers \cup {sockfd} |->
                          IF l = sockfd THEN AcceptLoop(l) ELSE watchers[l]]
        /\ UNCHANGED <<main_pc, exit_status, nloops, curr_loop_idx, efd,
                       relays, sent, received, targets, efd_io, pool_last>>
  /\ UNCHANGED <<addr_tuple_list, cpu_count, workers_started>>

\* Mutant: the threads are started once the first listener is attached.
main_run_event_loop_pool_early ==
  /\ main_pc = "attach_listener"
  /\ Cardinality(DOMAIN watchers) >= 1
  /\ main_pc' = "run_event_loop_pool"
  /\ workers_started' = TRUE
  /\ UNCHANGED <<addr_tuple_list, exit_status, cpu_count, poolVars>>

\* Line 197.
main_run_event_loop_pool ==
  /\ main_pc = "attach_listener"
  /\ Cardinality(DOMAIN watchers) = Len(addr_tuple_list)
  /\ main_pc' = "run_event_loop_pool"
  /\ workers_started' = TRUE
  /\ UNCHANGED <<addr_tuple_list, exit_status, cpu_count, poolVars>>

\* ------------------------------------------------------------------ Specs
\* No relay is followed: the conns have no descriptor.
NoRelay ==
  /\ conn_fd = [c \in Conns |-> -1]
  /\ foreign = {}

\* One relay on a worker: the read and write callbacks of its two sockets.
Init ==
  /\ RelayInit /\ PoolInit(1) /\ NoRelay /\ MainRunning
  /\ peer_len = [c \in Conns |-> MaxStream]
  /\ NoAsio

Next ==
  \/ \E c \in Conns : read_cb(c)
       /\ UNCHANGED <<poolVars, fdVars, asioVars, mainVars>>
  \/ \E c \in Conns : write_cb(c)
       /\ UNCHANGED <<poolVars, fdVars, asioVars, mainVars>>

Spec == Init /\ [][Next]_vars

\* libev's loop calls, on every iteration, each started watcher whose
\* descriptor is ready (level-triggered); a socket with a started read
\* watcher has data, EOF or an error to report, and a writable socket with a
\* started write watcher is reported on every iteration.
Fairness ==
  \A c \in Conns :
    /\ WF_vars(read_cb(c) /\ UNCHANGED <<poolVars, fdVars, asioVars, mainVars>>)
    /\ WF_vars(write_cb(c)
         /\ UNCHANGED <<poolVars, fdVars, asioVars, mainVars>>)

\* Each peer sends just enough for one direction to pass the threshold.
FairStream == kMaxConnBufferSize + 1

FairInit ==
  /\ RelayInit /\ PoolInit(1) /\ NoRelay /\ MainRunning
  /\ peer_len = [c \in Conns |-> FairStream]
  /\ NoAsio

FairSpec == FairInit /\ [][Next]_vars /\ Fairness

\* The hand-off value alone, for any two descriptors an int can name:
\* accept_cb's encoding and ::eventfd_write (lines 261-264) ...
encode_value(listen_fd, client_fd) ==
  /\ sent[0] = <<>>
  /\ efd' = [efd EXCEPT ![0] = EventfdWrite(@, Encode(listen_fd, client_fd))]
  /\ sent' = [sent EXCEPT ![0] = Append(@, <<listen_fd, client_fd>>)]
  /\ UNCHANGED <<nloops, curr_loop_idx, relay_addrs, fds, relays, received,
                 targets, watchers, efd_io, pool_last>>

\* ... and eventfd_read_cb's ::eventfd_read and decoding (lines 157-165).
decode_value ==
  /\ efd[0] > 0
  /\ efd' = [efd EXCEPT ![0] = 0]
  /\ received' = [received EXCEPT ![0] =
                    Append(@, <<DecodeListen(efd[0]), DecodeClient(efd[0])>>)]
  /\ UNCHANGED <<nloops, curr_loop_idx, relay_addrs, fds, relays, sent,
                 targets, watchers, efd_io, pool_last>>

CodecNext ==
  \/ \E listen_fd, client_fd \in 0..IntMax :
       encode_value(listen_fd, client_fd)
         /\ UNCHANGED <<relayVars, fdVars, asioVars, mainVars>>
  \/ decode_value /\ UNCHANGED <<relayVars, fdVars, asioVars, mainVars>>

CodecSpec == Init /\ [][CodecNext]_vars

\* The pool: the acceptor on loop 0 and the wake-up of every loop.
PoolSpecInit ==
  /\ RelayInit /\ NoRelay /\ MainRunning
  /\ peer_len = [c \in Conns |-> MaxStream]
  /\ NoAsio
  /\ \E n \in 0..MaxWorkers : PoolInit(n)

\* Every ::eventfd_write succeeds: the counter is far from its maximum.
PoolNext ==
  \/ \E l \in ListenFds(nloops) : accept_cb(l, {TRUE})
                                     /\ UNCHANGED <<relayVars, fdVars, asioVars, mainVars>>
  \/ \E i \in Loops : eventfd_read_cb(i)
       /\ UNCHANGED <<relayVars, fdVars, asioVars, mainVars>>

PoolSpec == PoolSpecInit /\ [][PoolNext]_vars

\* The pool when ::eventfd_write may also return -1.
FaultNext ==
  \/ \E l \in ListenFds(nloops) : accept_cb(l, BOOLEAN)
                                     /\ UNCHANGED <<relayVars, fdVars, asioVars, mainVars>>
  \/ \E i \in Loops : eventfd_read_cb(i)
       /\ UNCHANGED <<relayVars, fdVars, asioVars, mainVars>>

FaultSpec == PoolSpecInit /\ [][FaultNext]_vars

\* A single-loop pool right after its first connection was accepted,
\* handed off and set up: the relay of RelayInit with its two descriptors.
FirstClient == LowestFree([f \in FdRange |->
                 IF f <= EventFd(0) \/ f \in ListenFds(1) THEN "open" ELSE "free"])
FirstListen == CHOOSE l \in ListenFds(1) : \A k \in ListenFds(1) : l <= k

MuxInit ==
  /\ RelayInit /\ MainRunning
  /\ cpu_count = 1
  /\ nloops = 1
  /\ curr_loop_idx = NextLoopIdx(0, 1)
  /\ efd = [i \in {0} |-> 0]
  /\ relay_addrs = [i \in {0} |-> ListenFds(1)]
  /\ fds = [f \in FdRange |->
              IF f <= 2 THEN "std"
              ELSE IF f = EventFd(0) THEN "eventfd"
              ELSE IF f \in ListenFds(1) THEN "listen"
              ELSE IF f \in {FirstClient, FirstClient + 1} THEN "conn"
              ELSE "free"]
  /\ relays = {[loop |-> WatcherLoop(0), client_fd |-> FirstClient,
                server_fd |-> FirstClient + 1]}
  /\ sent = [i \in {0} |-> <<<<FirstListen, FirstClient>>>>]
  /\ received = [i \in {0} |-> <<<<FirstListen, FirstClient>>>>]
  /\ targets = <<0>>
  /\ watchers = [l \in ListenFds(1) |-> AcceptLoop(l)]
  /\ efd_io = [i \in {0} |-> TRUE]
  /\ pool_last = [cb |-> "eventfd_read_cb", loop |-> 0, res |-> "ok",
                  client_fd |-> FirstClient, missed |-> FALSE]
  /\ conn_fd = [c \in Conns |->
                  IF c = "client" THEN FirstClient ELSE FirstClient + 1]
  /\ foreign = {}
  /\ peer_len = [c \in Conns |-> MuxStream]
  /\ NoAsio

\* What a relay callback does to the descriptor table: close_impl is
\* ::close(read_io_.fd) on the number stored in the conn, whatever that
\* number names by now; clearing both contexts destroys the relay.
RelayOnFds ==
  LET closed == {c \in Conns : closes'[c] > closes[c]}
      again == {c \in closed : closes[c] > 0 /\ fds[conn_fd[c]] # "free"}
  IN
  /\ fds' = [f \in FdRange |->
               IF f \in {conn_fd[c] : c \in closed} THEN "free" ELSE fds[f]]
  /\ foreign' = foreign \cup {conn_fd[c] : c \in again}
  /\ relays' = IF \A c \in Conns : ~context'[c]
               THEN {r \in relays : \/ r.client_fd # conn_fd["client"]
                                     \/ r.server_fd # conn_fd["server"]}
               ELSE relays
  /\ UNCHANGED <<nloops, curr_loop_idx, efd, relay_addrs, sent, received,
                 targets, watchers, efd_io, pool_last, conn_fd, peer_len,
                 asioVars, mainVars>>

\* The relay's callbacks interleaved with the pool's, for as long as the
\* process runs.
MuxNext ==
  \/ \E c \in Conns : read_cb(c) /\ RelayOnFds
  \/ \E c \in Conns : write_cb(c) /\ RelayOnFds
  \/ \E l \in ListenFds(nloops) : /\ proc = "running"
                                     /\ accept_cb(l, {TRUE})
                                     /\ UNCHANGED <<relayVars, fdVars, asioVars, mainVars>>
  \/ \E i \in Loops : /\ proc = "running"
                        /\ eventfd_read_cb(i)
                        /\ UNCHANGED <<relayVars, fdVars, asioVars, mainVars>>

MuxSpec == MuxInit /\ [][MuxNext]_vars

\* No connection object exists yet: no watcher of a relay is started.
NoRelayObjects ==
  /\ buf = [c \in Conns |-> <<>>]
  /\ read_count = [c \in Conns |-> 0]
  /\ write_count = [c \in Conns |-> 0]
  /\ read_done = [c \in Conns |-> FALSE]
  /\ write_done = [c \in Conns |-> FALSE]
  /\ read_io = [c \in Conns |-> FALSE]
  /\ write_io = [c \in Conns |-> FALSE]
  /\ context = [c \in Conns |-> FALSE]
  /\ closes = [c \in Conns |-> 0]
  /\ shut_rd = [c \in Conns |-> 0]
  /\ shut_wr = [c \in Conns |-> 0]
  /\ rd = [c \in Conns |-> <<>>]
  /\ wr = [c \in Conns |-> <<>>]
  /\ last = [cb |-> "none", conn |-> "none", res |-> "none"]
  /\ failed = FALSE
  /\ proc = "running"
  /\ retire_log = <<>>

\* Mutant: the write watchers are started at creation as well.
NewRelay_write(client_fd, server_fd) ==
  /\ buf' = [c \in Conns |-> <<>>]
  /\ read_count' = [c \in Conns |-> 0]
  /\ write_count' = [c \in Conns |-> 0]
  /\ read_done' = [c \in Conns |-> FALSE]
  /\ write_done' = [c \in Conns |-> FALSE]
  /\ read_io' = [c \in Conns |-> TRUE]
  /\ write_io' = [c \in Conns |-> TRUE]
  /\ context' = [c \in Conns |-> TRUE]
  /\ conn_fd' = [c \in Conns |->
                   IF c = "client" THEN client_fd ELSE server_fd]
  /\ UNCHANGED <<closes, shut_rd, shut_wr, rd, wr, last, failed, proc,
                 retire_log, foreign, peer_len, asioVars>>

\* The two make_shared<TCPBufConn> (the constructor zeroes both counters,
\* clears both flags and leaves buf empty; TCPConn's constructor initialises
\* both watchers without starting them), then for each conn set_context,
\* set_read_event, set_write_event and enable_read.
NewRelay(client_fd, server_fd) ==
  /\ buf' = [c \in Conns |-> <<>>]
  /\ read_count' = [c \in Conns |-> 0]
  /\ write_count' = [c \in Conns |-> 0]
  /\ read_done' = [c \in Conns |-> FALSE]
  /\ write_done' = [c \in Conns |-> FALSE]
  /\ read_io' = [c \in Conns |-> TRUE]
  /\ write_io' = [c \in Conns |-> FALSE]
  /\ context' = [c \in Conns |-> TRUE]
  /\ conn_fd' = [c \in Conns |->
                   IF c = "client" THEN client_fd ELSE server_fd]
  /\ UNCHANGED <<closes, shut_rd, shut_wr, rd, wr, last, failed, proc,
                 retire_log, foreign, peer_len, asioVars>>

\* The relay's connection objects exist.
Created == conn_fd["client"] # -1

\* Connections accepted while main's set-up is followed as well.
ServeAccepts == MaxAccepts - 1

\* main from its first line with a command line that passes every check,
\* and no connection object yet; the peers will close without sending.
ServeInit ==
  /\ NoRelayObjects /\ NoRelay /\ MainInit
  /\ cpu_count >= 1
  /\ \A k \in DOMAIN addr_tuple_list : addr_tuple_list[k].dst = ServedDst
  /\ peer_len = [c \in Conns |-> 0]
  /\ NoAsio

\* main's set-up, then the threads: the pool's callbacks until the first
\* relay is created, and that relay's callbacks.
ServeNext ==
  \/ must_parse_command_line /\ UNCHANGED <<relayVars, fdVars, asioVars>>
  \/ main_create_event_loop_pool /\ UNCHANGED <<relayVars, fdVars, asioVars>>
  \/ main_attach_listener /\ UNCHANGED <<relayVars, fdVars, asioVars>>
  \/ main_run_event_loop_pool /\ UNCHANGED <<relayVars, fdVars, asioVars>>
  \/ \E c \in Conns : read_cb(c) /\ RelayOnFds
  \/ \E c \in Conns : write_cb(c) /\ RelayOnFds
  \/ \E l \in DOMAIN watchers :
       /\ workers_started /\ ~Created /\ Len(targets) < ServeAccepts
       /\ accept_cb(l, {TRUE})
       /\ UNCHANGED <<relayVars, fdVars, asioVars, mainVars>>
  \/ \E i \in Loops :
       /\ workers_started /\ ~Created
       /\ eventfd_read_cb(i)
       /\ IF pool_last'.res = "ok"
          THEN NewRelay(pool_last'.client_fd, LowestFree(fds))
          ELSE UNCHANGED <<relayVars, fdVars>>
       /\ UNCHANGED <<mainVars, asioVars>>

ServeSpec == ServeInit /\ [][ServeNext]_vars

\* main from the parsed command line to the running pool.
MainSpecInit ==
  /\ RelayInit /\ NoRelay /\ MainInit
  /\ peer_len = [c \in Conns |-> MaxStream]
  /\ NoAsio

MainNext ==
  \/ must_parse_command_line /\ UNCHANGED <<relayVars, fdVars, asioVars>>
  \/ main_create_event_loop_pool /\ UNCHANGED <<relayVars, fdVars, asioVars>>
  \/ main_attach_listener /\ UNCHANGED <<relayVars, fdVars, asioVars>>
  \/ main_run_event_loop_pool /\ UNCHANGED <<relayVars, fdVars, asioVars>>

MainSpec == MainSpecInit /\ [][MainNext]_vars

\* The parsing of a -r argument, tuple by tuple.
ParseSpecInit ==
  /\ RelayInit /\ NoRelay /\ ParseInit
  /\ peer_len = [c \in Conns |-> MaxStream]
  /\ NoAsio

ParseNext == must_parse_addr_tuple /\ UNCHANGED <<relayVars, fdVars, asioVars>>

ParseSpec == ParseSpecInit /\ [][ParseNext]_vars

\* ------------------------------------------------- proxy.cpp's read_cb
\* The unbuffered relay of proxy.cpp: each conn is a TCPConnStat with one
\* watcher (read_io here), attached for EV_READ by accept_cb; what is read
\* from one socket is written to the other in the same callback.

\* ~TCPConnStat
StatDtorRecord ==
  Record("TRACE", "TCPConnStat::~TCPConnStat",
         {"laddr", "raddr", "read", "write"})

\* case -1: both conns closed, detached and their contexts cleared.
ProxyReadFail(from, e) ==
  /\ closes' = [c \in Conns |-> closes[c] + 1]
  /\ read_io' = [c \in Conns |-> FALSE]
  /\ context' = [c \in Conns |-> FALSE]
  /\ failed' = TRUE
  /\ retire_log' = <<Record("ERROR", "Fail to read",
                            {"laddr", "raddr", "fd", "error"}),
                     StatDtorRecord, StatDtorRecord>>
  /\ last' = [cb |-> "proxy_read_cb", conn |-> from, res |-> e]
  /\ UNCHANGED <<buf, read_count, write_count, read_done, write_done,
                 write_io, shut_rd, shut_wr, rd, wr, proc>>

\* case 0: from is shut down for reading and detached, to is shut down for
\* writing; each is closed, and its context cleared, once both of its own
\* flags are set.
ProxyReadEof(from) ==
  LET to == Peer(from)
      closeFrom == write_done[from]
      closeTo == read_done[to]
  IN
  /\ shut_rd' = [shut_rd EXCEPT ![from] = @ + 1]
  /\ read_io' = [read_io EXCEPT ![from] = FALSE]
  /\ read_done' = [read_done EXCEPT ![from] = TRUE]
  /\ shut_wr' = [shut_wr EXCEPT ![to] = @ + 1]
  /\ write_done' = [write_done EXCEPT ![to] = TRUE]
  /\ closes' = [c \in Conns |->
                  IF (c = from /\ closeFrom) \/ (c = to /\ closeTo)
                  THEN closes[c] + 1 ELSE closes[c]]
  /\ context' = [c \in Conns |->
                   IF (c = from /\ closeFrom) \/ (c = to /\ closeTo)
                   THEN FALSE ELSE context[c]]
  /\ retire_log' =
       IF closeFrom /\ closeTo
       THEN <<Record("DEBUG", "Close half conn",
                     {"read_remote", "write_remote", "read_fd", "write_fd"}),
              StatDtorRecord, StatDtorRecord>>
       ELSE retire_log
  /\ last' = [cb |-> "proxy_read_cb", conn |-> from, res |-> "eof"]
  /\ UNCHANGED <<buf, read_count, write_count, write_io, rd, wr, failed,
                 proc>>

\* What ::write returns for the nread bytes just read: -1, or the number of
\* bytes the non-blocking socket took.
ProxyWriteResults(nread) == {-1} \cup 1..nread

\* default: the bytes are written to the other socket at once; a failed
\* write is logged and the callback returns, and after a successful one the
\* counters are advanced by nread and by what ::write took.
ProxyReadSome(from, data, n) ==
  LET to == Peer(from)
  IN
  /\ rd' = [rd EXCEPT ![from] = @ \o data]
  /\ IF n < 0
     THEN UNCHANGED <<read_count, write_count, wr>>
     ELSE /\ read_count' = [read_count EXCEPT ![from] = @ + Len(data)]
          /\ write_count' = [write_count EXCEPT ![to] = @ + n]
          /\ wr' = [wr EXCEPT ![to] = @ \o SubSeq(data, 1, n)]
  /\ last' = [cb |-> "proxy_read_cb", conn |-> from,
              res |-> IF n < 0 THEN "write failed" ELSE "data"]
  /\ UNCHANGED <<buf, read_done, write_done, read_io, write_io, context,
                 closes, shut_rd, shut_wr, failed, proc, retire_log>>

proxy_read_cb(from) ==
  /\ proc = "running"
  /\ read_io[from]
  /\ \/ \E e \in ReadErrnos : ProxyReadFail(from, e)
     \/ ProxyReadEof(from)
     \/ \E data \in ReadData(from) :
          \E n \in ProxyWriteResults(Len(data)) : ProxyReadSome(from, data, n)

\* The pair as proxy.cpp's accept_cb leaves it: two conns holding each
\* other, both attached for EV_READ, each peer with one scratch buffer of
\* bytes to send.  run_event_loop has no pool; the pool and main variables
\* keep the values of a running one-loop process.
ProxyInit ==
  /\ RelayInit /\ PoolInit(1) /\ NoRelay /\ MainRunning
  /\ peer_len = [c \in Conns |-> kReusableBufferSize]
  /\ NoAsio

ProxyNext ==
  \E c \in Conns : proxy_read_cb(c)
       /\ UNCHANGED <<poolVars, fdVars, asioVars, mainVars>>

ProxySpec == ProxyInit /\ [][ProxyNext]_vars

\* ------------------------------------------------------- the asio Relay
\* The Relay of the asio variant (relay.cpp lines 307-503): one streambuf per
\* direction (buf here), filled by async_read_some on the source socket and
\* emptied by asio::async_write on the destination socket.  Sizes are scaled
\* down, their order kept.

\* asio::basic_streambuf: the capacity a streambuf is constructed with.
kBufferDelta == 1
\* enum StreamBufCapcity
kSmall == 2
kMedium == 3
kLarge == 4
kXLarge == 5

\* make_prepare_buf, need_grow: the capacity the streambuf is grown to.
NewCap(cap) ==
  IF cap < kSmall THEN kSmall
  ELSE IF cap < kMedium THEN kMedium
  ELSE IF cap < kLarge THEN kLarge
  ELSE kXLarge

\* buf->capacity() once make_prepare_buf has called prepare.
Prepared(cap, grow) == IF grow THEN Max(cap, NewCap(cap)) ELSE cap

\* One outstanding operation: the bytes it was started for (the room
\* prepared for a read, the committed bytes given to a write) and the
\* need_grow its handler captured.
ReadOp(n) == [op |-> "read", n |-> n, grow |-> FALSE]
WriteOp(n, grow) == [op |-> "write", n |-> n, grow |-> grow]

Without(seq, k) == SubSeq(seq, 1, k - 1) \o SubSeq(seq, k + 1, Len(seq))

\* Relay::io_copy: grows the streambuf if asked to and starts one read into
\* the room behind the committed bytes.
io_copy(cap, size, grow) == <<ReadOp(Prepared(cap, grow) - size)>>

\* Relay::write_all: starts one asio::async_write of the committed bytes.
write_all(size, grow) == <<WriteOp(size, grow)>>

\* ~Relay runs when the last handler holding `self` has returned.
ForwardDone ==
  <<Record("INFO", "Forward done",
           {"from", "via", "to", "in_bytes", "out_bytes", "dur"})>>

\* The operations left on the two directions decide whether the Relay lives.
AsioLifetime ==
  IF \A c \in Conns : ops'[c] = <<>>
  THEN /\ context' = [c \in Conns |-> FALSE]
       /\ retire_log' = ForwardDone
  ELSE UNCHANGED <<context, retire_log>>

\* What async_read_some can hand back: some of the peer's next bytes, no more
\* than the room prepared.
AsioReadData(from, room) ==
  {SubSeq(PeerStream(from), Len(rd[from]) + 1, Len(rd[from]) + n) :
     n \in 1..Min(room, peer_len[from] - Len(rd[from]))}

\* io_copy's handler, ec == asio::error::eof.
AsioReadEof(from, rest) ==
  /\ shut_rd' = [shut_rd EXCEPT ![from] = @ + 1]
  /\ shut_wr' = [shut_wr EXCEPT ![Peer(from)] = @ + 1]
  /\ ops' = [ops EXCEPT ![from] = rest]
  /\ last' = [cb |-> "io_copy", conn |-> from, res |-> "eof"]
  /\ UNCHANGED <<buf, read_count, write_count, rd, wr, closes, failed,
                 capacity>>

\* io_copy's handler, any other error: logged, nothing started.
AsioReadFail(from, rest, e) ==
  /\ ops' = [ops EXCEPT ![from] = rest]
  /\ last' = [cb |-> "io_copy", conn |-> from, res |-> e]
  /\ UNCHANGED <<buf, read_count, write_count, rd, wr, closes, shut_rd,
                 shut_wr, failed, capacity>>

\* io_copy's handler, n bytes read: they are committed and write_all is
\* called with need_grow = (buf->capacity() == n).
AsioReadSome(from, rest, data) ==
  /\ read_count' = [read_count EXCEPT ![from] = @ + Len(data)]
  /\ buf' = [buf EXCEPT ![from] = @ \o data]
  /\ rd' = [rd EXCEPT ![from] = @ \o data]
  /\ ops' = [ops EXCEPT ![from] =
               rest \o write_all(Len(buf'[from]), capacity[from] = Len(data))]
  /\ last' = [cb |-> "io_copy", conn |-> from, res |-> "data"]
  /\ UNCHANGED <<write_count, wr, closes, shut_rd, shut_wr, failed,
                 capacity>>

asio_read_handler(from) ==
  /\ proc = "running"
  /\ \E k \in 1..Len(ops[from]) :
       /\ ops[from][k].op = "read"
       /\ LET rest == Without(ops[from], k)
          IN \/ \E e \in {"ECONNRESET", "operation_aborted"} :
                  /\ e = "operation_aborted" <=> closes[from] > 0
                  /\ AsioReadFail(from, rest, e)
             \/ closes[from] = 0 /\ AsioReadEof(from, rest)
             \/ /\ closes[from] = 0
                /\ \E data \in AsioReadData(from, ops[from][k].n) :
                     AsioReadSome(from, rest, data)
  /\ AsioLifetime
  /\ UNCHANGED <<read_done, write_done, read_io, write_io, proc>>

\* write_all's handler, ec set: both sockets are closed.
AsioWriteFail(from, rest, e) ==
  /\ closes' = [c \in Conns |-> closes[c] + 1]
  /\ ops' = [ops EXCEPT ![from] = rest]
  /\ failed' = TRUE
  /\ last' = [cb |-> "write_all", conn |-> Peer(from), res |-> e]
  /\ UNCHANGED <<buf, read_count, write_count, rd, wr, shut_rd, shut_wr,
                 capacity>>

\* Mutant: a write of several bytes completes one byte short.
AsioWriteDone_short(from, rest, w) ==
  LET to == Peer(from)
      n == IF w.n > 1 THEN w.n - 1 ELSE w.n
      b == SubSeq(buf[from], n + 1, Len(buf[from]))
      again == IF Len(b) > 0 THEN write_all(Len(b), w.grow) ELSE <<>>
      read == IF Len(b) < capacity[from]
              THEN io_copy(capacity[from], Len(b), w.grow) ELSE <<>>
  IN
  /\ write_count' = [write_count EXCEPT ![to] = @ + n]
  /\ wr' = [wr EXCEPT ![to] = @ \o SubSeq(buf[from], 1, n)]
  /\ buf' = [buf EXCEPT ![from] = b]
  /\ capacity' = [capacity EXCEPT ![from] =
                    IF read # <<>> THEN Prepared(@, w.grow) ELSE @]
  /\ ops' = [ops EXCEPT ![from] = rest \o again \o read]
  /\ last' = [cb |-> "write_all", conn |-> to, res |-> "ok"]
  /\ UNCHANGED <<read_count, rd, closes, shut_rd, shut_wr, failed>>

\* write_all's handler, no error: asio::async_write completes without error
\* only when every byte it was given is written.  The bytes are consumed;
\* write_all is called again if the streambuf still holds bytes, and io_copy
\* if it holds fewer than its capacity.
AsioWriteDone(from, rest, w) ==
  LET to == Peer(from)
      n == w.n
      b == SubSeq(buf[from], n + 1, Len(buf[from]))
      again == IF Len(b) > 0 THEN write_all(Len(b), w.grow) ELSE <<>>
      read == IF Len(b) < capacity[from]
              THEN io_copy(capacity[from], Len(b), w.grow) ELSE <<>>
  IN
  /\ write_count' = [write_count EXCEPT ![to] = @ + n]
  /\ wr' = [wr EXCEPT ![to] = @ \o SubSeq(buf[from], 1, n)]
  /\ buf' = [buf EXCEPT ![from] = b]
  /\ capacity' = [capacity EXCEPT ![from] =
                    IF read # <<>> THEN Prepared(@, w.grow) ELSE @]
  /\ ops' = [ops EXCEPT ![from] = rest \o again \o read]
  /\ last' = [cb |-> "write_all", conn |-> to, res |-> "ok"]
  /\ UNCHANGED <<read_count, rd, closes, shut_rd, shut_wr, failed>>

asio_write_handler(from) ==
  /\ proc = "running"
  /\ \E k \in 1..Len(ops[from]) :
       /\ ops[from][k].op = "write"
       /\ LET rest == Without(ops[from], k)
          IN \/ \E e \in {"EPIPE", "operation_aborted"} :
                  /\ e = "operation_aborted" <=> closes[Peer(from)] > 0
                  /\ AsioWriteFail(from, rest, e)
             \/ /\ closes[Peer(from)] = 0
                /\ AsioWriteDone(from, rest, ops[from][k])
  /\ AsioLifetime
  /\ UNCHANGED <<read_done, write_done, read_io, write_io, proc>>

\* The Relay as Relay::start leaves it: both streambufs empty and one
\* io_copy outstanding on each direction.
AsioInit ==
  /\ buf = [c \in Conns |-> <<>>]
  /\ read_count = [c \in Conns |-> 0]
  /\ write_count = [c \in Conns |-> 0]
  /\ read_done = [c \in Conns |-> FALSE]
  /\ write_done = [c \in Conns |-> FALSE]
  /\ read_io = [c \in Conns |-> FALSE]
  /\ write_io = [c \in Conns |-> FALSE]
  /\ context = [c \in Conns |-> TRUE]
  /\ closes = [c \in Conns |-> 0]
  /\ shut_rd = [c \in Conns |-> 0]
  /\ shut_wr = [c \in Conns |-> 0]
  /\ rd = [c \in Conns |-> <<>>]
  /\ wr = [c \in Conns |-> <<>>]
  /\ last = [cb |-> "none", conn |-> "none", res |-> "none"]
  /\ failed = FALSE
  /\ proc = "running"
  /\ retire_log = <<>>
  /\ capacity = [c \in Conns |-> kBufferDelta]
  /\ ops = [c \in Conns |-> io_copy(kBufferDelta, 0, FALSE)]

\* The asio relay has no pool of libev loops; the pool and main variables
\* keep the values of a running one-loop process.
AsioSpecInit ==
  /\ AsioInit /\ PoolInit(1) /\ NoRelay /\ MainRunning
  /\ peer_len = [c \in Conns |-> MaxStream]

AsioNext ==
  \/ \E c \in Conns : asio_read_handler(c)
       /\ UNCHANGED <<poolVars, fdVars, mainVars>>
  \/ \E c \in Conns : asio_write_handler(c)
       /\ UNCHANGED <<poolVars, fdVars, mainVars>>

AsioSpec == AsioSpecInit /\ [][AsioNext]_vars

\* ================================================================= claims
\* The relay was retired: both contexts were cleared, which destroys both
\* connection objects.
Retired == \A c \in Conns : ~context[c]
\* All four flags of the relay.
AllDone == \A c \in Conns : read_done[c] /\ write_done[c]
\* The errno values the specification calls transient.
Transient(e) == e \in {"EAGAIN", "EINTR"}
\* Error teardown: both fds closed, all four watchers stopped, relay retired.
TornDown ==
  \A c \in Conns : closes[c] > 0 /\ ~read_io[c] /\ ~write_io[c] /\ ~context[c]

\* C1: for each direction A->B, the bytes written so far to B followed by
\* the content of A's pending buffer are exactly the bytes read so far from
\* A, in order (so what was written is a prefix of what was read, and
\* nothing is inserted, dropped or reordered).
C1_BytePreservation ==
  \A a \in Conns : rd[a] = wr[Peer(a)] \o buf[a]

\* C1 witness: after a partial write, bytes of two reads are still pending.
C1_Witness ==
  \E a \in Conns :
    /\ last.cb = "write_cb" /\ last.conn = Peer(a) /\ last.res = "ok"
    /\ Len(wr[Peer(a)]) > 0
    /\ Len(buf[a]) >= 2
    /\ Len(rd[a]) > kReusableBufferSize

\* C2: a pending buffer never holds more than kMaxConnBufferSize +
\* kReusableBufferSize bytes, and whenever it holds more than
\* kMaxConnBufferSize the read watcher of its source socket is stopped.
C2_BackpressureBound ==
  \A c \in Conns :
    /\ Len(buf[c]) <= kMaxConnBufferSize + kReusableBufferSize
    /\ Len(buf[c]) > kMaxConnBufferSize => ~read_io[c]

\* C2 witness: a buffer filled to the threshold plus one full read.
C2_Witness ==
  \E c \in Conns :
    Len(buf[c]) = kMaxConnBufferSize + kReusableBufferSize /\ ~read_io[c]

\* C3: while the relay is live, for each direction A->B, read_count of A
\* equals write_count of B plus the size of A's pending buffer.
C3_CountBalance ==
  \A a \in Conns :
    context[a] => read_count[a] = write_count[Peer(a)] + Len(buf[a])

\* C3 witness: a live relay with bytes both written and still pending.
C3_Witness ==
  \E a \in Conns :
    /\ context[a]
    /\ write_count[Peer(a)] > 0
    /\ Len(buf[a]) > 0
    /\ read_count[a] > write_count[Peer(a)]

\* C4: when the relay is retired and no read or write has failed, both
\* pending buffers are empty and, for each direction, the bytes read from
\* the source equal the bytes written to the destination.
C4_OrderlyClose ==
  (Retired /\ ~failed) =>
    \A a \in Conns :
      /\ buf[a] = <<>>
      /\ read_count[a] = write_count[Peer(a)]
      /\ wr[Peer(a)] = rd[a]

\* C4 witness: an orderly retirement after both directions carried data.
C4_Witness ==
  /\ Retired /\ ~failed
  /\ \A a \in Conns : read_count[a] > 0

\* C5: SHUT_WR is issued on the client socket at most once, only when the
\* server has reached EOF and every byte read from the server has been
\* written to the client, and an orderly retirement has issued it exactly
\* once.
C5_HalfCloseDrained ==
  /\ shut_wr["client"] <= 1
  /\ shut_wr["client"] >= 1 =>
       /\ read_done["server"]
       /\ buf["server"] = <<>>
       /\ wr["client"] = rd["server"]
  /\ (Retired /\ ~failed) => shut_wr["client"] = 1

\* C5 witness: the client reached EOF first, the server then sent bytes in
\* several reads and closed, and the client socket was shut down for write.
C5_Witness ==
  /\ read_done["client"] /\ read_done["server"]
  /\ Len(rd["client"]) > 0
  /\ Len(rd["server"]) > kReusableBufferSize
  /\ shut_wr["client"] = 1
  /\ ~failed

\* C6: a socket of the relay is closed only when all four of
\* client.read_done, client.write_done, server.read_done, server.write_done
\* hold.
C6_CloseOnlyWhenAllDone ==
  \A c \in Conns : closes[c] > 0 => AllDone

\* C7: every pair written to a loop's eventfd is received by that loop
\* exactly once and decoded to the same pair: whenever a loop's eventfd is
\* drained, the pairs it decoded are the pairs written to it, in order.
C7_HandoffExactlyOnce ==
  \A i \in Loops : efd[i] = 0 => received[i] = sent[i]

\* C8: every dispatch target is a valid loop index; with more than one
\* loop the targets are never 0 and cycle 1, 2, ..., N-1; with exactly one
\* loop every target is 0.
C8_TargetValid ==
  \A k \in 1..Len(targets) :
    /\ targets[k] \in Loops
    /\ nloops > 1 => targets[k] = ((k - 1) % (nloops - 1)) + 1
    /\ nloops = 1 => targets[k] = 0

\* C8 witness: three loops, the cursor has gone round more than twice.
C8_Witness == nloops = 3 /\ Len(targets) = MaxAccepts

Ceil(a, b) == (a + b - 1) \div b
Abs(x) == IF x < 0 THEN -x ELSE x
\* Connections dispatched to loop i, and in total.
Dispatched(i) == Len(sent[i])
TotalDispatched == Len(targets)

\* C9 as stated: with N > 1 loops and M dispatches, loop 0 is at most
\* ceil(M/N) short of M/N, and every other loop's count is within one of
\* M/(N-1) * (N-1)/N = M/N.  (Inequalities multiplied through by N.)
C9_FairnessAsStated ==
  nloops > 1 =>
    /\ TotalDispatched - nloops * Dispatched(0)
         <= nloops * Ceil(TotalDispatched, nloops)
    /\ \A i \in Loops \ {0} :
         Abs(nloops * Dispatched(i) - TotalDispatched) <= nloops

\* C9 amended: as stated for loop 0; every other loop's count is within
\* one of M/(N-1).  (Second inequality multiplied through by N-1.)
C9_FairnessAmended ==
  nloops > 1 =>
    /\ TotalDispatched - nloops * Dispatched(0)
         <= nloops * Ceil(TotalDispatched, nloops)
    /\ \A i \in Loops \ {0} :
         Abs((nloops - 1) * Dispatched(i) - TotalDispatched) <= nloops - 1

\* C9 witness: three loops and an uneven split between loops 1 and 2.
C9_Witness ==
  /\ nloops = 3
  /\ TotalDispatched >= 3
  /\ Dispatched(1) # Dispatched(2)

\* C10: after a write callback whose write failed with an errno other than
\* EAGAIN/EINTR the whole relay is torn down: both fds closed, all four
\* watchers stopped, relay retired.
C10_WriteErrorTearsDown ==
  (last.cb = "write_cb" /\ last.res \in WriteErrnos /\ ~Transient(last.res))
    => TornDown

\* C11: after a read callback whose read failed with an errno
\* other than EAGAIN/EINTR, both fds are closed, all four watchers are
\* stopped, all four done flags are set and the relay is retired.
C11_ReadErrorAsStated ==
  (last.cb = "read_cb" /\ last.res \in ReadErrnos /\ ~Transient(last.res))
    => (TornDown /\ AllDone)

\* C12: a read callback whose read failed with EAGAIN or EINTR leaves the
\* relay as it was: no fd closed, no watcher stopped, no flag, counter or
\* buffer changed, relay not retired.
C12_TransientReadNoChange ==
  [][(last'.cb = "read_cb" /\ Transient(last'.res) /\ last' # last)
       => UNCHANGED <<buf, read_count, write_count, read_done, write_done,
                      read_io, write_io, context, closes, shut_rd, shut_wr>>]_vars

\* The step is a wake-up callback of loop i in which some set-up operation
\* failed (whether or not the code noticed).
SetupFailed(i) ==
  /\ efd[i] > 0 /\ efd'[i] = 0
  /\ pool_last'.res # "ok" \/ pool_last'.missed

\* C13: a wake-up callback in which a set-up operation fails closes the
\* client_fd it decoded and leaves no other descriptor open or closed (a
\* server_fd it opened is closed again), creates no relay, starts or stops
\* no watcher, and leaves every listener and wake-up eventfd open with its
\* watcher started.
C13_SetupFailureCleansUp ==
  [][\A i \in Loops : SetupFailed(i) =>
       /\ fds' = Close(fds, pool_last'.client_fd)
       /\ relays' = relays
       /\ watchers' = watchers /\ efd_io' = efd_io
       /\ \A l \in ListenFds(nloops) : fds'[l] = "listen" /\ l \in DOMAIN watchers'
       /\ \A j \in Loops : fds'[EventFd(j)] = "eventfd" /\ efd_io'[j]]_vars

\* C14: after an accept callback whose ::eventfd_write failed, the accepted
\* client_fd is closed.
C14_WriteFailureClosesClient ==
  (pool_last.cb = "accept_cb" /\ pool_last.res = "eventfd_write")
    => fds[pool_last.client_fd] = "free"

\* C17: every relay has one owner: its watchers are on the loop whose
\* wake-up callback decoded the relay's client_fd, and no descriptor is a
\* socket of two relays.
C17_SingleOwner ==
  /\ \A r \in relays :
       /\ r.loop \in Loops
       /\ \E k \in 1..Len(received[r.loop]) :
            received[r.loop][k][2] = r.client_fd
  /\ \A r1, r2 \in relays :
       {r1.client_fd, r1.server_fd} \cap {r2.client_fd, r2.server_fd} # {}
         => r1 = r2

\* C17 witness: relays live on two different workers.
C17_Witness ==
  \E r1, r2 \in relays : r1.loop # r2.loop /\ r1.loop > 0 /\ r2.loop > 0

\* C18: an accept callback whose ::accept fails changes nothing of the
\* pool: cursor, tables, eventfd counters, descriptors, relays and
\* watchers are as before, and the listener is still open and watched.
C18_AcceptFailureNoChange ==
  [][\A l \in ListenFds(nloops) :
       (pool_last'.cb = "accept_cb" /\ pool_last'.res = "accept") =>
         /\ UNCHANGED <<nloops, curr_loop_idx, efd, relay_addrs, fds, relays,
                        watchers, efd_io>>
         /\ l \in DOMAIN watchers' /\ fds'[l] = "listen"]_vars

\* C18 witness: an accept failed after the cursor had moved and while a
\* hand-off was pending.
C18_Witness ==
  /\ pool_last.cb = "accept_cb" /\ pool_last.res = "accept"
  /\ curr_loop_idx > 0
  /\ \E i \in Loops : efd[i] > 0

\* C15: a relay's callbacks close only that relay's own descriptors: no
\* close of the relay lands on a descriptor number that by then names
\* another connection, and listeners and wake-up eventfds stay open.
C15_ErrorsIsolated ==
  /\ foreign = {}
  /\ \A l \in ListenFds(nloops) : fds[l] = "listen"
  /\ \A i \in Loops : fds[EventFd(i)] = "eventfd"

\* C16: when no relay is left and no hand-off is pending, no connection
\* descriptor is open: only stdio, the listeners and the eventfds are.
C16_NoDescriptorLeft ==
  (relays = {} /\ \A i \in Loops : efd[i] = 0)
    => \A f \in FdRange : fds[f] # "conn"

\* The dst the specification rules out: port 0, or the unspecified address
\* of its family.
InvalidDst(a) ==
  \/ a.port = 0
  \/ a.family = "AF_INET" /\ a.ip = <<0, 0, 0, 0>>
  \/ a.family = "AF_INET6" /\ a.ip = AnyV6

\* C19: with a tuple whose dst has port 0 or the unspecified address, main
\* never gets past the parsing of the command line: no eventfd, no
\* listening socket, no worker thread, and the process ends with a
\* non-zero status.
C19_InvalidDstExits ==
  (\E k \in 1..Len(addr_tuple_list) : InvalidDst(addr_tuple_list[k].dst))
    => /\ main_pc \in {"must_parse_command_line", "exited", "terminated"}
       /\ main_pc # "must_parse_command_line" => exit_status > 0
       /\ \A f \in FdRange : fds[f] \in {"std", "free"}
       /\ ~workers_started

\* C20: once the relay is retired, the callback that retired it has emitted
\* exactly one INFO record that carries in_bytes, out_bytes and the duration.
C20_RetirementRecord ==
  Retired =>
    Cardinality({k \in 1..Len(retire_log) :
                   /\ retire_log[k].level = "INFO"
                   /\ {"in_bytes", "out_bytes", "dur"} \subseteq retire_log[k].keys})
      = 1

\* C21: for each direction A->B, a step issues shutdown(B, SHUT_WR) or sets
\* B's write_done only if A had reached EOF before the step and the step
\* leaves A's pending buffer empty with every byte read from A written to B.
C21_ShutdownOnlyWhenDrained ==
  [][\A to \in Conns :
       (shut_wr'[to] > shut_wr[to] \/ (write_done'[to] /\ ~write_done[to])) =>
         /\ read_done[Peer(to)]
         /\ buf'[Peer(to)] = <<>>
         /\ wr'[to] = rd[Peer(to)]
         /\ shut_wr'[to] = shut_wr[to] + 1
         /\ write_done'[to]]_vars

\* C21 witness: the client sent more than one buffer's worth and closed; the
\* last write callback on the server drained it and shut the server down.
C21_Witness ==
  /\ last.cb = "write_cb" /\ last.conn = "server" /\ last.res = "ok"
  /\ shut_wr["server"] = 1 /\ write_done["server"]
  /\ Len(rd["client"]) > kMaxConnBufferSize
  /\ ~read_done["server"]

\* C22: a read callback that sees EOF on A shuts A down for reading once,
\* stops A's read watcher, sets A's read_done and starts the write watcher of
\* A's peer; and once A's read_done is set, no step starts A's read watcher,
\* clears the flag, reads a byte from A or lengthens A's pending buffer.
C22_EofStopsReading ==
  [][\A a \in Conns :
       /\ (last'.cb = "read_cb" /\ last'.conn = a /\ last'.res = "eof"
             /\ last' # last) =>
            /\ shut_rd'[a] = shut_rd[a] + 1
            /\ ~read_io'[a]
            /\ read_done'[a]
            /\ write_io'[Peer(a)]
       /\ read_done[a] =>
            /\ read_done'[a]
            /\ ~read_io'[a]
            /\ rd'[a] = rd[a]
            /\ Len(buf'[a]) <= Len(buf[a])]_vars

\* C22 witness: after the client's EOF a write callback on the server took
\* the client's buffer below the threshold without emptying it, and the
\* client's read watcher stayed stopped.
C22_Witness ==
  /\ last.cb = "write_cb" /\ last.conn = "server" /\ last.res = "ok"
  /\ read_done["client"]
  /\ buf["client"] # <<>> /\ Len(buf["client"]) < kMaxConnBufferSize
  /\ ~read_io["client"]
  /\ closes["client"] = 0

\* C23: in every fair run in which no read or write fails, both peers reach
\* EOF, all four done flags get set and the relay is retired; the step that
\* retires it is the write callback that sets the last write_done, the other
\* half being DONE already; and no callback of the relay runs after it.
C23_BothEofRetires ==
  /\ <>(failed \/ (Retired /\ AllDone))
  /\ [][/\ (Retired' /\ ~Retired /\ ~failed') =>
            /\ last'.cb = "write_cb" /\ last'.res = "ok"
            /\ ~write_done[last'.conn] /\ write_done[Peer(last'.conn)]
            /\ \A c \in Conns : read_done[c]
            /\ AllDone'
        /\ Retired => (Retired' /\ last' = last)]_vars

\* C23 witness: both peers sent data and closed, and the write callback on
\* the server finished the second half and retired the relay, no read or
\* write having failed.
C23_Witness ==
  /\ Retired /\ AllDone /\ ~failed
  /\ last.cb = "write_cb" /\ last.conn = "server"
  /\ Len(rd["client"]) > 0 /\ Len(rd["server"]) > 0
  /\ closes["client"] > 0

\* A's read watcher is stopped by backpressure: the relay is live and A has
\* not reached EOF.
Backpressured(a) == ~read_io[a] /\ ~read_done[a] /\ ~Retired

\* The write on B failed: B did not accept bytes.
Refused(b) == last.cb = "write_cb" /\ last.conn = b /\ last.res \in WriteErrnos

\* C24: every step that leaves A's read watcher stopped while A has not
\* reached EOF and the relay is live leaves the write watcher of A's peer B
\* started and A's buffer at or above the threshold; and from such a state,
\* unless a write on B is refused or the relay is torn down, the buffer drops
\* below the threshold and A's read watcher is started again.
C24_BackpressureLive ==
  /\ [][\A a \in Conns :
          Backpressured(a)' =>
            write_io'[Peer(a)] /\ Len(buf'[a]) >= kMaxConnBufferSize]_vars
  /\ \A a \in Conns :
       Backpressured(a) ~>
         \/ read_io[a] /\ Len(buf[a]) < kMaxConnBufferSize
         \/ Refused(Peer(a))
         \/ Retired

\* C24 witness: a write callback on the server took the client's buffer
\* from above the threshold down to it, and the client's read watcher is
\* still stopped while the server's write watcher is started.
C24_Witness ==
  /\ Backpressured("client")
  /\ last.cb = "write_cb" /\ last.conn = "server" /\ last.res = "ok"
  /\ Len(buf["client"]) = kMaxConnBufferSize
  /\ write_io["server"]

\* The half A->B is ACTIVE: A has not reached EOF and the relay is live.
Active(a) == ~read_done[a] /\ ~Retired

\* C25 as stated: while the half A->B is ACTIVE, A's read watcher is started,
\* and B's write watcher is started iff A's pending buffer is non-empty.
C25_ActiveAsStated ==
  \A a \in Conns :
    Active(a) =>
      /\ read_io[a]
      /\ write_io[Peer(a)] <=> buf[a] # <<>>

\* C25 amended: while the half A->B is ACTIVE, B's write watcher is started
\* iff A's pending buffer is non-empty; A's read watcher is started whenever
\* the buffer is below kMaxConnBufferSize and stopped whenever it is above.
C25_ActiveAmended ==
  \A a \in Conns :
    Active(a) =>
      /\ write_io[Peer(a)] <=> buf[a] # <<>>
      /\ Len(buf[a]) < kMaxConnBufferSize => read_io[a]
      /\ Len(buf[a]) > kMaxConnBufferSize => ~read_io[a]

\* C25 witness: the client's half is ACTIVE with its buffer above the
\* threshold and read stopped, while the server's half is ACTIVE and idle.
C25_Witness ==
  /\ Active("client") /\ Active("server")
  /\ Len(buf["client"]) > kMaxConnBufferSize
  /\ ~read_io["client"] /\ write_io["server"]
  /\ buf["server"] = <<>> /\ read_io["server"] /\ ~write_io["client"]

\* C26: a write callback whose write failed with EAGAIN or EINTR leaves both
\* pending buffers, all counters, all done flags and all four watchers as
\* they were, and closes or shuts down nothing.
C26_TransientWriteNoChange ==
  [][(last'.cb = "write_cb" /\ Transient(last'.res) /\ last' # last) =>
       UNCHANGED <<buf, read_count, write_count, read_done, write_done,
                   read_io, write_io, context, closes, shut_rd, shut_wr,
                   rd, wr, proc>>]_vars

\* C26 witness: a write on the server failed with a transient errno after an
\* earlier write had succeeded, with bytes still pending and the write
\* watcher still started.
C26_Witness ==
  /\ last.cb = "write_cb" /\ last.conn = "server" /\ Transient(last.res)
  /\ buf["client"] # <<>> /\ Len(wr["server"]) > 0
  /\ write_io["server"] /\ ~Retired

\* C27: the wake-up callback that creates a relay leaves, for the client and
\* for the server socket, the read watcher started and the write watcher
\* stopped, both pending buffers empty, all four counters zero and all four
\* done flags false; each conn holds the other as its context.
C27_NewRelayState ==
  [][(~Created /\ Created') =>
       /\ pool_last'.cb = "eventfd_read_cb" /\ pool_last'.res = "ok"
       /\ \A c \in Conns :
            /\ read_io'[c] /\ ~write_io'[c]
            /\ buf'[c] = <<>>
            /\ read_count'[c] = 0 /\ write_count'[c] = 0
            /\ ~read_done'[c] /\ ~write_done'[c]
            /\ context'[c]
            /\ fds'[conn_fd'[c]] = "conn"]_vars

\* C27 witness: a relay was created by the wake-up callback after an earlier
\* hand-off had failed in set-up, and none of its callbacks has run yet.
C27_Witness ==
  /\ Created /\ last.cb = "none"
  /\ pool_last.cb = "eventfd_read_cb" /\ pool_last.res = "ok"
  /\ nloops = 1 /\ Len(received[0]) = 2
  /\ Cardinality(relays) = 1

\* C28: at every point of main's set-up and afterwards, the table of every
\* loop holds exactly the listeners attached so far, one entry each; every
\* accept watcher is started on loop 0; and once the threads run, no step
\* (accept, wake-up, read or write callback) changes a table or a watcher's
\* loop.
C28_TablesFixed ==
  /\ [](\A i \in Loops :
          /\ relay_addrs[i] = DOMAIN watchers
          /\ relay_addrs[i] = {f \in FdRange : fds[f] = "listen"})
  /\ [](\A l \in DOMAIN watchers : watchers[l] = 0)
  /\ [][workers_started =>
          relay_addrs' = relay_addrs /\ watchers' = watchers]_vars

\* C28 witness: three loops and two listeners; a connection was accepted
\* and handed off, its relay created, and a write callback of it has run.
C28_Witness ==
  /\ workers_started /\ nloops = 3
  /\ Cardinality(DOMAIN watchers) = 2
  /\ Created /\ last.cb = "write_cb"
  /\ pool_last.cb = "eventfd_read_cb" /\ pool_last.loop > 0

\* C29: for every listen_fd and client_fd from 0 to the largest int, the
\* pair the worker decodes from the value the acceptor encoded is the pair
\* that was encoded.
C29_RoundTrip ==
  /\ \A k \in DOMAIN received[0] : received[0][k] = sent[0][k]
  /\ \A k \in DOMAIN sent[0] :
       /\ DecodeListen(Encode(sent[0][k][1], sent[0][k][2])) = sent[0][k][1]
       /\ DecodeClient(Encode(sent[0][k][1], sent[0][k][2])) = sent[0][k][2]

\* C29 witness: the largest listen_fd and the largest client_fd went through.
C29_Witness ==
  /\ sent[0] = <<<<IntMax, IntMax>>>>
  /\ Len(received[0]) = 1

\* C30: every step that changes curr_loop_idx is an accept callback, every
\* accept callback runs on loop 0, whose thread is the only one to run them,
\* and the callbacks of the other loops leave the cursor as it is.
C30_CursorOnLoopZero ==
  /\ [][curr_loop_idx' # curr_loop_idx =>
          /\ workers_started
          /\ pool_last'.cb = "accept_cb" /\ pool_last'.loop = 0
          /\ pool_last'.res \in {"ok", "eventfd_write"}]_vars
  /\ [](pool_last.cb = "accept_cb" => pool_last.loop = 0)
  /\ [][(pool_last' # pool_last /\ pool_last'.loop > 0) =>
          /\ pool_last'.cb = "eventfd_read_cb"
          /\ curr_loop_idx' = curr_loop_idx]_vars

\* C30 witness: three loops; the wake-up callback of loop 1 has run on its
\* own thread, and a second accept callback then moved the cursor again.
C30_Witness ==
  /\ nloops = 3 /\ curr_loop_idx = 2
  /\ pool_last.cb = "accept_cb" /\ pool_last.res = "ok"
  /\ Len(received[1]) = 1

\* C31: once create_event_loop_pool(n) has returned, and until the threads
\* are started, the pool has exactly max(1, n) loops, each with an eventfd
\* of its own whose counter is zero and whose read watcher is started; the
\* cursor is 0 and no loop thread runs.
C31_PoolAsCreated ==
  main_pc = "attach_listener" =>
    /\ nloops = IF cpu_count > 1 THEN cpu_count ELSE 1
    /\ DOMAIN efd = 0..(nloops - 1) /\ DOMAIN efd_io = 0..(nloops - 1)
    /\ \A i \in Loops :
         efd[i] = 0 /\ efd_io[i] /\ fds[EventFd(i)] = "eventfd"
    /\ Cardinality({f \in FdRange : fds[f] = "eventfd"}) = nloops
    /\ curr_loop_idx = 0
    /\ ~workers_started

\* C31 witness: asked for no worker at all, the pool has one loop.
C31_Witness ==
  /\ main_pc = "attach_listener" /\ cpu_count = 0 /\ nloops = 1
  /\ efd_io[0] /\ fds[EventFd(0)] = "eventfd"

\* C32: a step of the listener installation that fails ends the process with
\* status 1 and leaves the threads unstarted; an ended process takes no
\* further step; and the threads are started only when every tuple of the
\* command line has its listener attached.
C32_InstallAllOrNothing ==
  [][/\ (main_pc = "attach_listener" /\ main_pc' # "attach_listener"
          /\ Cardinality(DOMAIN watchers) < Len(addr_tuple_list)) =>
         (main_pc' = "exited" /\ exit_status' = 1 /\ ~workers_started')
     /\ main_pc = "exited" => UNCHANGED vars
     /\ workers_started' =>
         /\ Cardinality(DOMAIN watchers') = Len(addr_tuple_list)
         /\ \A l \in DOMAIN watchers' : fds'[l] = "listen"]_vars

\* C32 witness: of two tuples the first got its listener and the second
\* failed; the process has exited with status 1 and no thread was started.
C32_Witness ==
  /\ main_pc = "exited" /\ exit_status = 1 /\ ~workers_started
  /\ Len(addr_tuple_list) = 2 /\ Cardinality(DOMAIN watchers) = 1

\* C33: the port of a parsed endpoint is the number its argument gives: a
\* bare port N that is accepted yields 0.0.0.0 with port N, HOST:PORT yields
\* port PORT, and no number outside 0..65535 becomes another port.
C33_PortKept ==
  \A k \in 1..Len(addr_tuple_list) :
    LET t == addr_tuple_list[k]
        n == find_last_of(t.arg, ":")
        port_text == SubSeq(t.arg, n + 1, Len(t.arg))
    IN (/\ t.dst.family = "AF_INET"
        /\ port_text # <<>>
        /\ \A i \in 1..Len(port_text) : IsDigit(port_text[i]))
       => /\ t.dst.port = stoi(port_text).value
          /\ n = 0 => t.dst.ip = <<0, 0, 0, 0>>

\* C34: a command line whose every dst has a non-zero port and an address
\* other than 0.0.0.0 and [::] passes check_addr_tuple_valid: main goes on
\* to create the pool.
C34_ValidAccepted ==
  [][(/\ main_pc = "must_parse_command_line"
      /\ main_pc' # main_pc
      /\ \A k \in 1..Len(addr_tuple_list) :
           ~InvalidDst(addr_tuple_list[k].dst))
     => main_pc' = "create_event_loop_pool"]_vars

\* C35: over the lifetime of a relay ::close() is called at most once on
\* each of its two sockets.
C35_ClosedAtMostOnce ==
  \A c \in Conns : closes[c] <= 1

\* C36: a callback that closes a relay socket leaves that socket's read
\* watcher and write watcher stopped, and they stay stopped: no watcher is
\* active on a closed fd, so neither callback is invoked on one.
C36_ClosedFdUnwatched ==
  \A c \in Conns : closes[c] > 0 => ~read_io[c] /\ ~write_io[c]


\* The client's fd was closed by write_cb while the client's bytes are
\* still being written to the server.
C36_Witness ==
  /\ closes["client"] = 1 /\ closes["server"] = 0
  /\ ~failed
  /\ buf["client"] # <<>> /\ write_io["server"]

\* C37: with more than one loop, the numbers of connections dispatched to
\* any two loops other than loop 0 differ by at most one.
C37_WorkersBalanced ==
  nloops > 1 =>
    \A i, j \in Loops \ {0} : Dispatched(i) - Dispatched(j) <= 1

\* Three loops, and a dispatch count that the two workers cannot share
\* evenly.
C37_Witness ==
  /\ nloops = 3
  /\ Dispatched(1) = 2 /\ Dispatched(2) = 1

\* C38: in proxy.cpp's read_cb, the callback in which a socket reaches EOF
\* shuts the opposite socket down for writing and retires the pair, whichever
\* half it is; and after every callback the bytes counted as read from a
\* socket equal the bytes counted as written to the opposite one.
C38_UnbufferedRelay ==
  /\ [][\A c \in Conns :
          (read_done'[c] /\ ~read_done[c])
            => /\ shut_wr'[Peer(c)] = shut_wr[Peer(c)] + 1
               /\ \A d \in Conns : ~context'[d] /\ closes'[d] = 1]_vars
  /\ [](\A c \in Conns : read_count[c] = write_count[Peer(c)])

\* C39: the write_cb that retires the relay touches no TCPBufConn after the
\* last shared_ptr to it is gone: the callback's behaviour is defined, and
\* the process runs on after it.
C39_NoUseAfterRelease ==
  [][(last'.cb = "write_cb" /\ Retired' /\ ~Retired) => proc' = "running"]_vars

\* The operations of one kind outstanding on a direction.
OpsOf(seq, kind) == {k \in 1..Len(seq) : seq[k].op = kind}

\* C40: in the asio relay each direction has at most one asynchronous
\* operation outstanding on its streambuf; a handler that starts an
\* operation starts one of the other kind than the one it completed; a read
\* is started only on an empty streambuf; and the handler that shuts the
\* opposite socket down for sending at EOF finds the streambuf empty.
C40_OneOperationPerDirection ==
  /\ [](\A c \in Conns : Len(ops[c]) <= 1)
  /\ [][\A c \in Conns :
          /\ (ops[c] # <<>> /\ ops'[c] # <<>> /\ ops'[c] # ops[c])
               => ops'[c][1].op # ops[c][1].op
          /\ (OpsOf(ops'[c], "read") # {} /\ OpsOf(ops[c], "read") = {})
               => buf'[c] = <<>>
          /\ shut_wr'[Peer(c)] > shut_wr[Peer(c)]
               => buf[c] = <<>> /\ buf'[c] = <<>>]_vars

\* A direction that has read, written, grown its streambuf, read again and
\* reached EOF with everything forwarded.
C40_Witness ==
  /\ shut_wr["server"] = 1
  /\ write_count["server"] = MaxStream
  /\ capacity["client"] > kBufferDelta
  /\ buf["client"] = <<>>

=============================================================================
